---------------------------- MODULE Spec2Model ----------------------------
(***************************************************************************)
(* Truth Table Generator (fitelson/TTG): the sentence model, the letter    *)
(* registry, the evaluator, the truth-table generator, the parser, the     *)
(* formula layout and the quiz state of the page.                          *)
(*                                                                         *)
(* A JavaScript string is a sequence of one-character strings; a character *)
(* outside ASCII is written by its code point ("u2228" is U+2228).         *)
(***************************************************************************)
EXTENDS Integers, Sequences, FiniteSets, TLC

VARIABLES
    batch,          \* generate_truth_table: the formulas argument
    result,         \* generate_truth_table: what the call returned
    evalSentence,   \* evaluate: the sentence argument
    evalAssignment, \* evaluate: the assignment (a Map from letter_string to boolean)
    evalResult,     \* evaluate: what the call returned
    keySentences,   \* sentence_to_string_compact: two sentences to render
    keys,           \* sentence_to_string_compact: their compact strings
    parseInput,     \* parse_sentence: the input
    parseResult,    \* parse_sentence: what the call returned
    parseOrigin,    \* the sentence whose spaced string the input is, when it is one
    layoutOut,      \* layoutFormula, evaluateLayout: what they returned for a batch
    formulas,       \* main.ts: the formula inputs (text, parsed, error, warning)
    currentResult,  \* main.ts: the table on display, or null
    showQuasiColumns,
    batchMode,
    batchText,
    highlightedRows,
    currentMode,    \* 'calculator' | 'quiz'
    userAnswers,    \* Map from "row-formulaIdx-tokenIdx" to 'T' | 'F'
    cellStatuses,   \* Map from "row-formulaIdx-tokenIdx" to 'correct' | 'incorrect'
    quizChecked,
    answersRevealed,
    savedAnswersBeforeReveal,
    savedStatusesBeforeReveal,
    savedQuizCheckedBeforeReveal,
    view,           \* the output section of the page as last rendered
    generateDisabled, \* the disabled attribute of the generate button
    steps,          \* how many handlers have run
    atReveal        \* history: the quiz state when the answers on show were revealed

pureVars == <<batch, result, evalSentence, evalAssignment, evalResult,
              keySentences, keys, parseInput, parseResult, parseOrigin, layoutOut>>

quizVars == <<userAnswers, cellStatuses, quizChecked, answersRevealed,
              savedAnswersBeforeReveal, savedStatusesBeforeReveal,
              savedQuizCheckedBeforeReveal>>

pageVars == <<formulas, currentResult, showQuasiColumns, batchMode, batchText,
              highlightedRows, currentMode, quizVars, view, generateDisabled,
              steps, atReveal>>

vars == <<pureVars, pageVars>>

(***************************************************************************)
(* Sentence model (types.ts)                                               *)
(***************************************************************************)
BinaryTags ==
    {"disjunction", "conjunction", "conditional", "biconditional", "xor", "nand"}

val(v) == [tag |-> "value", value |-> v]
letter(id, index) == [tag |-> "letter", id |-> id, index |-> index]
not(s) == [tag |-> "negation", sentence |-> s]
binary(tag, left, right) == [tag |-> tag, left |-> left, right |-> right]
and(left, right) == binary("conjunction", left, right)
or(left, right) == binary("disjunction", left, right)
imp(left, right) == binary("conditional", left, right)
iff(left, right) == binary("biconditional", left, right)
xor(left, right) == binary("xor", left, right)
nand(left, right) == binary("nand", left, right)

\* The upper-case ASCII letters, in alphabetical order.
UpperCase ==
    <<"A", "B", "C", "D", "E", "F", "G", "H", "I", "J", "K", "L", "M",
      "N", "O", "P", "Q", "R", "S", "T", "U", "V", "W", "X", "Y", "Z">>

IsAtom(s) == s.tag \in {"value", "letter"}
IsBinary(s) == s.tag \in BinaryTags

\* The decimal digits of a non-negative integer, as a template literal prints it.
DigitChars == <<"0", "1", "2", "3", "4", "5", "6", "7", "8", "9">>

RECURSIVE NumberToString(_)
NumberToString(n) ==
    IF n < 10 THEN <<DigitChars[n + 1]>>
    ELSE NumberToString(n \div 10) \o <<DigitChars[(n % 10) + 1]>>

\* A mutation of letter_string: the index is dropped.
letter_string_no_index(l) == <<l.id>>

letter_string(l) ==
    <<l.id>> \o (IF l.index > 0 THEN NumberToString(l.index) ELSE <<>>)

\* The display symbol of each binary connective (a one-character string).
DisplaySymbol(tag) ==
    CASE tag = "conjunction" -> "&"
      [] tag = "disjunction" -> "u2228"
      [] tag = "conditional" -> "u2192"
      [] tag = "biconditional" -> "u2194"
      [] tag = "xor" -> "u2295"
      [] tag = "nand" -> "|"

RECURSIVE sentence_to_string(_)

\* A mutation of wrap_if_needed: nothing is wrapped.
wrap_if_needed_never(s) == sentence_to_string(s)

wrap_if_needed(s) ==
    IF s.tag = "value" \/ s.tag = "letter" \/ s.tag = "negation"
    THEN sentence_to_string(s)
    ELSE <<"(">> \o sentence_to_string(s) \o <<")">>

sentence_to_string(s) ==
    CASE s.tag = "value" -> IF s.value THEN <<"u22A4">> ELSE <<"u22A5">>
      [] s.tag = "letter" -> letter_string(s)
      [] s.tag = "negation" -> <<"~">> \o wrap_if_needed(s.sentence)
      [] OTHER ->
            wrap_if_needed(s.left) \o <<" ", DisplaySymbol(s.tag), " ">>
            \o wrap_if_needed(s.right)

\* sentence_to_string_compact(s, isTopLevel) with wrap_compact.
RECURSIVE sentence_to_string_compact(_, _)
wrap_compact(left, right, op, isTopLevel) ==
    LET inner == sentence_to_string_compact(left, FALSE) \o <<op>>
                 \o sentence_to_string_compact(right, FALSE)
    IN  IF isTopLevel THEN inner ELSE <<"(">> \o inner \o <<")">>

sentence_to_string_compact(s, isTopLevel) ==
    CASE s.tag = "value" -> IF s.value THEN <<"T">> ELSE <<"F">>
      [] s.tag = "letter" -> letter_string(s)
      [] s.tag = "negation" ->
            <<"~">> \o sentence_to_string_compact(s.sentence, FALSE)
      [] OTHER -> wrap_compact(s.left, s.right, DisplaySymbol(s.tag), isTopLevel)

(***************************************************************************)
(* Parser (types.ts, the parsimmon language SentenceLang)                  *)
(***************************************************************************)
\* A parser applied to the input at position i (counted from 1) either
\* succeeds with a value and the position after what it consumed, or fails.
Success(value, pos) == [ok |-> TRUE, value |-> value, pos |-> pos]
Failure == [ok |-> FALSE, value |-> <<>>, pos |-> 0]

\* The characters \s and String.prototype.trim take for white space.
Whitespace == {" ", "\t", "\n"}

\* Connective symbols that users can type.
connectives(tag) ==
    CASE tag = "negation" -> <<"~">>
      [] tag = "conjunction" -> <<"&">>
      [] tag = "disjunction" -> <<"v">>
      [] tag = "conditional" -> <<"-", ">">>
      [] tag = "biconditional" -> <<"<", "-", ">">>
      [] tag = "xor" -> <<"+">>
      [] tag = "nand" -> <<"|">>

\* P.string(str)
P_string(str, inp, i) ==
    IF i + Len(str) - 1 <= Len(inp) /\ SubSeq(inp, i, i + Len(str) - 1) = str
    THEN Success(str, i + Len(str))
    ELSE Failure

\* P.optWhitespace: the position after the white space at i.
RECURSIVE optWhitespace(_, _)
optWhitespace(inp, i) ==
    IF i <= Len(inp) /\ inp[i] \in Whitespace THEN optWhitespace(inp, i + 1) ELSE i

\* A mutation of Letter: T and F are read as the constants.
Letter_with_constants(inp, i) ==
    IF i <= Len(inp) /\ (\E k \in 1..Len(UpperCase) : UpperCase[k] = inp[i])
    THEN Success(IF inp[i] = "T" THEN val(TRUE)
                 ELSE IF inp[i] = "F" THEN val(FALSE)
                 ELSE letter(inp[i], 0), i + 1)
    ELSE Failure

\* Letter: P.regexp(/[A-Z]/).map((id) => letter(id, 0))
Letter(inp, i) ==
    IF i <= Len(inp) /\ (\E k \in 1..Len(UpperCase) : UpperCase[k] = inp[i])
    THEN Success(letter(inp[i], 0), i + 1)
    ELSE Failure

\* P.alt of two parsers applied at one position: the first that succeeds.
alt(a, b) == IF a.ok THEN a ELSE b

RECURSIVE Factor(_, _), Sentence(_, _)

\* Not: .map(([_1, _2, s]) => not(s)) on the outcome of r.Factor.
Not_map(operand) ==
    IF operand.ok THEN Success(not(operand.value), operand.pos) ELSE Failure

\* Not: P.seq(alt_strings(connectives.negation), P.optWhitespace, r.Factor)
Not_seq(inp, tilde) ==
    IF tilde.ok THEN Not_map(Factor(inp, optWhitespace(inp, tilde.pos))) ELSE Failure

Not(inp, i) == Not_seq(inp, P_string(connectives("negation"), inp, i))

\* One alternative of Wrapped, P.seq(P.string(open), P.optWhitespace,
\* r.Sentence, P.optWhitespace, P.string(close)).map(... => s): the value of
\* the sentence s at the position after the closing bracket rb.
Wrapped_map(s, rb) == IF rb.ok THEN Success(s.value, rb.pos) ELSE Failure

Wrapped_close(close, inp, s) ==
    IF s.ok THEN Wrapped_map(s, P_string(<<close>>, inp, optWhitespace(inp, s.pos)))
    ELSE Failure

Wrapped_open(close, inp, lb) ==
    IF lb.ok THEN Wrapped_close(close, inp, Sentence(inp, optWhitespace(inp, lb.pos)))
    ELSE Failure

WrappedIn(open, close, inp, i) == Wrapped_open(close, inp, P_string(<<open>>, inp, i))

\* A mutation of Wrapped_assert: the assertion on what the brackets enclose
\* is left out.
Wrapped_unasserted(s) == s

\* .assert(s => s.tag !== 'negation' && s.tag !== 'letter')
Wrapped_assert(s) ==
    IF s.ok /\ s.value.tag # "negation" /\ s.value.tag # "letter" THEN s
    ELSE Failure

\* Wrapped: P.alt of the three bracket kinds, then the assertion.
Wrapped(inp, i) ==
    Wrapped_assert(alt(WrappedIn("(", ")", inp, i),
                       alt(WrappedIn("[", "]", inp, i), WrappedIn("{", "}", inp, i))))

\* Factor: P.alt(r.Not, r.Wrapped, r.Letter)
Factor(inp, i) == alt(Not(inp, i), alt(Wrapped(inp, i), Letter(inp, i)))

\* separator.then(r.Factor).many(): the operands after the first, and the
\* position after the last one parsed. A separator that no operand follows
\* is not consumed.
RECURSIVE sepBy_many(_, _, _, _)
many_operand(symbol, inp, i, operands, operand) ==
    IF operand.ok
    THEN sepBy_many(symbol, inp, operand.pos, Append(operands, operand.value))
    ELSE Success(operands, i)

many_separator(symbol, inp, i, operands, sep) ==
    IF sep.ok
    THEN many_operand(symbol, inp, i, operands, Factor(inp, optWhitespace(inp, sep.pos)))
    ELSE Success(operands, i)

sepBy_many(symbol, inp, i, operands) ==
    many_separator(symbol, inp, i, operands,
                   P_string(symbol, inp, optWhitespace(inp, i)))

\* r.Factor.sepBy(P.seq(P.optWhitespace, alt_strings(symbol), P.optWhitespace)).
\* Every alternative of Sentence starts by applying r.Factor at the same
\* position i; first is the outcome of that application, computed once by
\* Sentence and handed to each alternative.
sepBy(symbol, inp, i, first) ==
    IF first.ok THEN sepBy_many(symbol, inp, first.pos, <<first.value>>)
    ELSE Success(<<>>, i)

\* A mutation of the assertion of the binary rules: two or more operands are
\* accepted and the first two are kept.
assert_at_least_two(tag, operands) ==
    IF Len(operands.value) >= 2
    THEN Success(binary(tag, operands.value[1], operands.value[2]), operands.pos)
    ELSE Failure

\* .assert((operands) => operands.length === 2)
\* .map(([left, right]) => and(left, right)), and so for each connective.
assert_two(tag, operands) ==
    IF Len(operands.value) = 2
    THEN Success(binary(tag, operands.value[1], operands.value[2]), operands.pos)
    ELSE Failure

\* And, Or, Imp, Iff, Xor, Nand
BinaryRule(tag, inp, i, first) ==
    assert_two(tag, sepBy(connectives(tag), inp, i, first))

\* The order of the alternatives of Sentence before Factor.
SentenceAlternatives ==
    <<"biconditional", "conditional", "disjunction", "conjunction", "xor", "nand">>

\* P.alt over the binary rules from alternative k on, then r.Factor.
RECURSIVE SentenceFrom(_, _, _, _)
SentenceFrom(k, inp, i, first) ==
    IF k > Len(SentenceAlternatives) THEN first
    ELSE alt(BinaryRule(SentenceAlternatives[k], inp, i, first),
             SentenceFrom(k + 1, inp, i, first))

\* Sentence: P.alt(r.Iff, r.Imp, r.Or, r.And, r.Xor, r.Nand, r.Factor)
Sentence(inp, i) == SentenceFrom(1, inp, i, Factor(inp, i))

\* String.prototype.trim
RECURSIVE trim(_)
trim(input) ==
    IF input = <<>> THEN input
    ELSE IF Head(input) \in Whitespace THEN trim(Tail(input))
    ELSE IF input[Len(input)] \in Whitespace
    THEN trim(SubSeq(input, 1, Len(input) - 1))
    ELSE input

\* Res<Sentence, string>
ParseOk(s) == [ok |-> TRUE, value |-> s]
ParseError == [ok |-> FALSE, value |-> <<>>]

\* A mutation of Parser.parse: the end of the input is not required.
parse_prefix(trimmed, parsed) ==
    IF parsed.ok THEN ParseOk(parsed.value) ELSE ParseError

\* Parser.parse: the parser must succeed and consume the whole input.
parse(trimmed, parsed) ==
    IF parsed.ok /\ parsed.pos = Len(trimmed) + 1 THEN ParseOk(parsed.value)
    ELSE ParseError

\* parse_sentence: SentenceLang.Sentence.parse(input.trim())
parse_trimmed(trimmed) == parse(trimmed, Sentence(trimmed, 1))

parse_sentence(input) == parse_trimmed(trim(input))

(***************************************************************************)
(* Letter registry (truth_table.ts)                                        *)
(***************************************************************************)
\* new LetterSet(): map is a Map from id to the Set of its indexes, all the
\* letters in insertion order.
LetterSet_new == [map |-> <<>>, all |-> <<>>]

LetterSet_has(ls, l) ==
    IF l.id \in DOMAIN ls.map THEN l.index \in ls.map[l.id] ELSE FALSE

\* A mutation of LetterSet_add: a letter whose id is known is never added.
LetterSet_add_by_id(ls, l) ==
    IF l.id \notin DOMAIN ls.map
    THEN [map |-> [k \in DOMAIN ls.map \cup {l.id} |->
                      IF k = l.id THEN {l.index} ELSE ls.map[k]],
          all |-> Append(ls.all, l)]
    ELSE ls

LetterSet_add(ls, l) ==
    IF l.id \notin DOMAIN ls.map
    THEN [map |-> [k \in DOMAIN ls.map \cup {l.id} |->
                      IF k = l.id THEN {l.index} ELSE ls.map[k]],
          all |-> Append(ls.all, l)]
    ELSE IF l.index \notin ls.map[l.id]
    THEN [map |-> [ls.map EXCEPT ![l.id] = @ \cup {l.index}],
          all |-> Append(ls.all, l)]
    ELSE ls

\* for (const l of letters) target.add(l)
RECURSIVE LetterSet_addAll(_, _)
LetterSet_addAll(ls, letters) ==
    IF letters = <<>> THEN ls
    ELSE LetterSet_addAll(LetterSet_add(ls, Head(letters)), Tail(letters))

\* The inner function rec of collect_letters, threading the set it adds to.
RECURSIVE collect_rec(_, _)
collect_rec(letters, s) ==
    CASE s.tag = "value" -> letters
      [] s.tag = "letter" -> LetterSet_add(letters, s)
      [] s.tag = "negation" -> collect_rec(letters, s.sentence)
      [] OTHER -> collect_rec(collect_rec(letters, s.left), s.right)

collect_letters(s) == collect_rec(LetterSet_new, s)

\* String.prototype.localeCompare on one-character upper-case ids: alphabetical.
CharRank(c) == CHOOSE i \in 1..Len(UpperCase) : UpperCase[i] = c

localeCompare(a, b) ==
    IF a = b THEN 0 ELSE IF CharRank(a) < CharRank(b) THEN -1 ELSE 1

\* A mutation of comp_letters: the index is not compared.
comp_letters_id_only(a, b) == localeCompare(a.id, b.id)

comp_letters(a, b) ==
    LET cmp == localeCompare(a.id, b.id)
    IN  IF cmp = 0 THEN a.index - b.index ELSE cmp

\* Array.prototype.sort(comp_letters): a stable sort, here by insertion.
RECURSIVE sort_insert(_, _)
sort_insert(sorted, l) ==
    IF sorted = <<>> THEN <<l>>
    ELSE IF comp_letters(l, Head(sorted)) < 0 THEN <<l>> \o sorted
    ELSE <<Head(sorted)>> \o sort_insert(Tail(sorted), l)

RECURSIVE sort_letters(_)
sort_letters(letters) ==
    IF letters = <<>> THEN <<>>
    ELSE sort_insert(sort_letters(SubSeq(letters, 1, Len(letters) - 1)),
                     letters[Len(letters)])

(***************************************************************************)
(* Evaluator (truth_table.ts)                                              *)
(***************************************************************************)
\* A call either returns a boolean or throws.
Return(b) == [threw |-> FALSE, value |-> b]
Throw == [threw |-> TRUE, value |-> FALSE]

\* Map.prototype.set
Map_set(m, key, v) ==
    [k \in DOMAIN m \cup {key} |-> IF k = key THEN v ELSE m[k]]

\* The closure lookup of generate_truth_table over the row's assignment.
lookup(assignment, l) ==
    LET key == letter_string(l)
    IN  IF key \in DOMAIN assignment THEN Return(assignment[key]) ELSE Throw

\* A mutation of evaluate: nand computed as a conjunction.
RECURSIVE evaluate_nand_as_and(_, _)
evaluate_nand_as_and(assignment, s) ==
    CASE s.tag = "value" -> Return(s.value)
      [] s.tag = "letter" -> lookup(assignment, s)
      [] s.tag = "negation" ->
            LET a == evaluate_nand_as_and(assignment, s.sentence)
            IN  IF a.threw THEN Throw ELSE Return(~a.value)
      [] OTHER ->
            LET a == evaluate_nand_as_and(assignment, s.left)
                b == evaluate_nand_as_and(assignment, s.right)
            IN  IF a.threw \/ b.threw THEN Throw
                ELSE Return(CASE s.tag = "conjunction" -> a.value /\ b.value
                              [] s.tag = "disjunction" -> a.value \/ b.value
                              [] s.tag = "conditional" -> ~a.value \/ b.value
                              [] s.tag = "biconditional" -> a.value = b.value
                              [] s.tag = "xor" -> a.value # b.value
                              [] s.tag = "nand" -> a.value /\ b.value)

\* A mutation of evaluate: a conjunction computed as a conditional.
RECURSIVE evaluate_and_as_imp(_, _)
evaluate_and_as_imp(assignment, s) ==
    CASE s.tag = "value" -> Return(s.value)
      [] s.tag = "letter" -> lookup(assignment, s)
      [] s.tag = "negation" ->
            LET a == evaluate_and_as_imp(assignment, s.sentence)
            IN  IF a.threw THEN Throw ELSE Return(~a.value)
      [] OTHER ->
            LET a == evaluate_and_as_imp(assignment, s.left)
                b == evaluate_and_as_imp(assignment, s.right)
            IN  IF a.threw \/ b.threw THEN Throw
                ELSE Return(CASE s.tag = "conjunction" -> ~a.value \/ b.value
                              [] s.tag = "disjunction" -> a.value \/ b.value
                              [] s.tag = "conditional" -> ~a.value \/ b.value
                              [] s.tag = "biconditional" -> a.value = b.value
                              [] s.tag = "xor" -> a.value # b.value
                              [] s.tag = "nand" -> ~(a.value /\ b.value))

\* evaluate(assignment, s), with assignment the closure lookup over a Map.
\* && and || evaluate their right operand only when the left one does not
\* decide the result; === and !== evaluate both.
RECURSIVE evaluate(_, _)
evaluate(assignment, s) ==
    CASE s.tag = "value" -> Return(s.value)
      [] s.tag = "letter" -> lookup(assignment, s)
      [] s.tag = "negation" ->
            LET a == evaluate(assignment, s.sentence)
            IN  IF a.threw THEN Throw ELSE Return(~a.value)
      [] s.tag = "conjunction" ->
            LET a == evaluate(assignment, s.left)
            IN  IF a.threw THEN Throw
                ELSE IF ~a.value THEN Return(FALSE)
                ELSE evaluate(assignment, s.right)
      [] s.tag = "disjunction" ->
            LET a == evaluate(assignment, s.left)
            IN  IF a.threw THEN Throw
                ELSE IF a.value THEN Return(TRUE)
                ELSE evaluate(assignment, s.right)
      [] s.tag = "conditional" ->
            LET a == evaluate(assignment, s.left)
            IN  IF a.threw THEN Throw
                ELSE IF ~a.value THEN Return(TRUE)
                ELSE evaluate(assignment, s.right)
      [] s.tag = "biconditional" ->
            LET a == evaluate(assignment, s.left)
                b == evaluate(assignment, s.right)
            IN  IF a.threw \/ b.threw THEN Throw ELSE Return(a.value = b.value)
      [] s.tag = "xor" ->
            LET a == evaluate(assignment, s.left)
                b == evaluate(assignment, s.right)
            IN  IF a.threw \/ b.threw THEN Throw ELSE Return(a.value # b.value)
      [] s.tag = "nand" ->
            LET a == evaluate(assignment, s.left)
            IN  IF a.threw THEN Throw
                ELSE IF ~a.value THEN Return(TRUE)
                ELSE LET b == evaluate(assignment, s.right)
                     IN  IF b.threw THEN Throw ELSE Return(~b.value)

(***************************************************************************)
(* Truth-table generator (truth_table.ts)                                  *)
(***************************************************************************)
RECURSIVE Pow2(_)
Pow2(n) == IF n = 0 THEN 1 ELSE 2 * Pow2(n - 1)

\* Number.prototype.toString(2) of a non-negative integer.
RECURSIVE toString2(_)
toString2(n) ==
    IF n < 2 THEN <<DigitChars[n + 1]>>
    ELSE toString2(n \div 2) \o <<DigitChars[(n % 2) + 1]>>

\* String.prototype.padStart(width, '0')
RECURSIVE padStart0(_, _)
padStart0(str, width) ==
    IF Len(str) >= width THEN str ELSE padStart0(<<"0">> \o str, width)

\* n >>> 0 (ToUint32): the identity on 0 <= n < 2^32, and a row index of a
\* table of fewer than 32 letters is in that range.
ToUint32(n) == n

\* A mutation of to_bin_str: the padding is left out.
to_bin_str_unpadded(n, width) == toString2(ToUint32(n))

\* (n >>> 0).toString(2).padStart(width, '0')
to_bin_str(n, width) == padStart0(toString2(ToUint32(n)), width)

\* bin[i] === '0', i counted from 0; past the end bin[i] is undefined.
BitIsZero(bin, i) == IF i + 1 <= Len(bin) THEN bin[i + 1] = "0" ELSE FALSE

\* The loop building one row's assignment Map, from position i on.
RECURSIVE build_assignment(_, _, _, _)
build_assignment(assignment, letters, bin, i) ==
    IF i >= Len(letters) THEN assignment
    ELSE build_assignment(
            Map_set(assignment, letter_string(letters[i + 1]), BitIsZero(bin, i)),
            letters, bin, i + 1)

\* make_row is one iteration of the loop over state: the row, or a throw out
\* of evaluate. A mutation of it: the formulas are evaluated in reverse order.
make_row_reversed(fs, letters, state) ==
    [threw |-> \E j \in 1..Len(fs) :
                  evaluate(build_assignment(<<>>, letters,
                              to_bin_str(state, Len(letters)), 0), fs[j]).threw,
     assignment |-> build_assignment(<<>>, letters, to_bin_str(state, Len(letters)), 0),
     values |-> [j \in 1..Len(fs) |->
                   evaluate(build_assignment(<<>>, letters,
                               to_bin_str(state, Len(letters)), 0),
                            fs[Len(fs) + 1 - j]).value]]

make_row(fs, letters, state) ==
    LET bin == to_bin_str(state, Len(letters))
        assignment == build_assignment(<<>>, letters, bin, 0)
        values == [j \in 1..Len(fs) |-> evaluate(assignment, fs[j])]
    IN  [threw |-> \E j \in 1..Len(fs) : values[j].threw,
         assignment |-> assignment,
         values |-> [j \in 1..Len(fs) |-> values[j].value]]

\* The union of the letters of the formulas, in insertion order.
RECURSIVE all_letters(_, _)
all_letters(allLetters, fs) ==
    IF fs = <<>> THEN allLetters
    ELSE all_letters(
            LetterSet_addAll(allLetters, collect_letters(Head(fs)).all),
            Tail(fs))

NoResult == [tag |-> "none"]
ThrownError == [tag |-> "error"]

generate_truth_table(fs) ==
    LET letters == sort_letters(all_letters(LetterSet_new, fs).all)
        n_states == IF Len(letters) = 0 THEN 1 ELSE Pow2(Len(letters))
        made == [k \in 1..n_states |-> make_row(fs, letters, k - 1)]
    IN  IF \E k \in 1..n_states : made[k].threw THEN ThrownError
        ELSE [tag |-> "table",
              letters |-> letters,
              formulas |-> fs,
              rows |-> [k \in 1..n_states |->
                          [assignment |-> made[k].assignment,
                           values |-> made[k].values]]]


(***************************************************************************)
(* Formula layout (formula_layout.ts)                                      *)
(***************************************************************************)
\* FormulaToken
TextToken(text) == [type |-> "text", text |-> text]
ValueToken(text, subformula, isMain) ==
    [type |-> "value", text |-> text, subformula |-> subformula, isMain |-> isMain]

\* The text of the value token of each binary connective.
LayoutText(tag) ==
    CASE tag = "conjunction" -> <<"&">>
      [] tag = "disjunction" -> <<"u2228">>
      [] tag = "conditional" -> <<" ", "u2192", " ">>
      [] tag = "biconditional" -> <<" ", "u2194", " ">>
      [] tag = "xor" -> <<"u2295">>
      [] tag = "nand" -> <<"|">>

\* The inner function layout of layoutFormula: the tokens it emits.
RECURSIVE layout(_, _, _)
layout(s, isMainConnective, isTopLevel) ==
    CASE s.tag = "value" ->
            <<ValueToken(IF s.value THEN <<"u22A4">> ELSE <<"u22A5">>, s, isMainConnective)>>
      [] s.tag = "letter" -> <<ValueToken(letter_string(s), s, isMainConnective)>>
      [] s.tag = "negation" ->
            <<ValueToken(<<"~">>, s, isMainConnective)>> \o layout(s.sentence, FALSE, FALSE)
      [] OTHER ->
            (IF ~isTopLevel THEN <<TextToken(<<"(">>)>> ELSE <<>>)
            \o layout(s.left, FALSE, FALSE)
            \o <<ValueToken(LayoutText(s.tag), s, isMainConnective)>>
            \o layout(s.right, FALSE, FALSE)
            \o (IF ~isTopLevel THEN <<TextToken(<<")">>)>> ELSE <<>>)

\* A mutation of layoutFormula: no token is the main one.
layoutFormula_no_main(s) == [tokens |-> layout(s, FALSE, TRUE)]

\* A mutation of layoutFormula: the root is laid out as an operand.
layoutFormula_as_operand(s) == [tokens |-> layout(s, TRUE, FALSE)]

layoutFormula(s) == [tokens |-> layout(s, TRUE, TRUE)]

IsValueToken(token) == token.type = "value"

\* evaluateLayout: one entry per value token, in token order. The lookups of a
\* row of the table the layout belongs to find every letter of the formula.
\* A mutation of evaluateValues: every entry gets the value of the first
\* token's sub-formula.
evaluateValues_of_first(valueTokens, assignment) ==
    [k \in 1..Len(valueTokens) |->
        [text |-> valueTokens[k].text,
         value |-> evaluate(assignment, valueTokens[1].subformula).value,
         isMain |-> valueTokens[k].isMain]]

evaluateValues(valueTokens, assignment) ==
    [k \in 1..Len(valueTokens) |->
        [text |-> valueTokens[k].text,
         value |-> evaluate(assignment, valueTokens[k].subformula).value,
         isMain |-> valueTokens[k].isMain]]

evaluateLayout(tokens, assignment) ==
    evaluateValues(SelectSeq(tokens, IsValueToken), assignment)

(***************************************************************************)
(* The page (main.ts): formula inputs                                      *)
(***************************************************************************)
\* null, where a string is expected, and where a Sentence is expected
NullString == "null"
NullSentence == [tag |-> "null"]

EmptyFormula ==
    [text |-> <<>>, parsed |-> NullSentence, error |-> NullString, warning |-> NullString]

\* const bracketPairs = [['(', ')'], ['[', ']'], ['{', '}']]
bracketPairs == <<(<<"(", ")">>), (<<"[", "]">>), (<<"{", "}">>)>>

\* hasUnnecessaryOuterParens: the loop over i < trimmed.length - 1 returns
\* false as soon as the depth, counted on this kind of bracket, is back to 0.
ClosedBeforeTheEnd(trimmed, open, close) ==
    \E i \in 1..(Len(trimmed) - 1) :
        Cardinality({k \in 1..i : trimmed[k] = open})
            = Cardinality({k \in 1..i : trimmed[k] = close})

\* trimmed.startsWith(open) && trimmed.endsWith(close)
WrapsWhole(trimmed, open, close) ==
    trimmed # <<>> /\ trimmed[1] = open /\ trimmed[Len(trimmed)] = close

\* The loop over bracketPairs from pair k on: the first pair that wraps the
\* text decides.
RECURSIVE outerParensFrom(_, _, _)
outerParensFrom(k, trimmed, parsed) ==
    IF k > Len(bracketPairs) THEN FALSE
    ELSE IF WrapsWhole(trimmed, bracketPairs[k][1], bracketPairs[k][2])
    THEN /\ ~ClosedBeforeTheEnd(trimmed, bracketPairs[k][1], bracketPairs[k][2])
         /\ parsed.tag # "letter" /\ parsed.tag # "negation" /\ parsed.tag # "value"
    ELSE outerParensFrom(k + 1, trimmed, parsed)

hasUnnecessaryOuterParens(text, parsed) == outerParensFrom(1, trim(text), parsed)

\* validateFormula, on what parse_sentence returned
validated(text, parsed) ==
    IF parsed.ok
    THEN [text |-> text, parsed |-> parsed.value, error |-> NullString,
          warning |-> IF hasUnnecessaryOuterParens(text, parsed.value)
                      THEN "Outer parentheses not required." ELSE NullString]
    ELSE [text |-> text, parsed |-> NullSentence,
          error |-> "Syntax error (not a wff).", warning |-> NullString]

validateFormula(formula) ==
    IF trim(formula.text) = <<>>
    THEN [text |-> formula.text, parsed |-> NullSentence, error |-> NullString,
          warning |-> NullString]
    ELSE validated(formula.text, parse_sentence(formula.text))

\* formulas.forEach((_, i) => validateFormula(i))
validateAll(fs) == [i \in 1..Len(fs) |-> validateFormula(fs[i])]

IsNonEmpty(formula) == trim(formula.text) # <<>>
IsParsed(formula) == formula.parsed # NullSentence

\* allValid, of renderInputSection and of updateGenerateButton
allValid(fs) ==
    /\ \E i \in 1..Len(fs) : IsNonEmpty(fs[i])
    /\ \A i \in 1..Len(fs) : IsNonEmpty(fs[i]) => IsParsed(fs[i])

\* formulas.filter(f => f.parsed !== null).map(f => f.parsed!)
parsedOf(fs) == [i \in 1..Len(fs) |-> fs[i].parsed]
validFormulas(fs) == parsedOf(SelectSeq(fs, IsParsed))

\* formulas.splice(index, 1), index counted from 0
splice(fs, index) == SubSeq(fs, 1, index) \o SubSeq(fs, index + 2, Len(fs))

\* batchText.split('\n'): the lines of a text, current being the line so far.
RECURSIVE split(_, _)
split(text, current) ==
    IF text = <<>> THEN <<current>>
    ELSE IF Head(text) = "\n" THEN <<current>> \o split(Tail(text), <<>>)
    ELSE split(Tail(text), Append(current, Head(text)))

IsNonBlank(line) == trim(line) # <<>>

\* lines.map(text => ({ text, parsed: null, error: null, warning: null }))
formulasOfLines(lines) ==
    [i \in 1..Len(lines) |-> [EmptyFormula EXCEPT !.text = lines[i]]]

(***************************************************************************)
(* The page (main.ts): the truth table and its quiz cells                  *)
(***************************************************************************)
\* `${rowIdx}-${formulaIdx}-${tokenIdx}` and `${formulaIdx}-${tokenIdx}`
cellKeyOf(formulaIdx, tokenIdx) ==
    NumberToString(formulaIdx) \o <<"-">> \o NumberToString(tokenIdx)
cellIdOf(rowIdx, formulaIdx, tokenIdx) ==
    NumberToString(rowIdx) \o <<"-">> \o cellKeyOf(formulaIdx, tokenIdx)
\* `${rowIdx}-${depKey}`
depCellIdOf(rowIdx, depKey) == NumberToString(rowIdx) \o <<"-">> \o depKey

Map_delete(m, key) == [k \in DOMAIN m \ {key} |-> m[k]]

\* currentResult.formulas.map(f => layoutFormula(f))
layoutsOf(fs) == [j \in 1..Len(fs) |-> layoutFormula(fs[j])]

\* The (formulaIdx, tokenIdx) pairs in the order layouts.forEach visits them,
\* from formula f on; both indexes counted from 0.
RECURSIVE tokenPositions(_, _)
tokenPositions(layouts, f) ==
    IF f >= Len(layouts) THEN <<>>
    ELSE [t \in 1..Len(layouts[f + 1].tokens) |-> <<f, t - 1>>]
         \o tokenPositions(layouts, f + 1)

tokenAt(layouts, p) == layouts[p[1] + 1].tokens[p[2] + 1]

\* token.type === 'value' && token.subformula.tag !== 'letter'
\*   && token.subformula.tag !== 'value'
IsConnectiveToken(token) ==
    /\ token.type = "value"
    /\ token.subformula.tag # "letter"
    /\ token.subformula.tag # "value"

\* subformulaToCell: the compact string of each connective token's
\* sub-formula mapped to the last cell that shows it.
RECURSIVE subformulaToCell(_, _, _)
subformulaToCell(map, layouts, positions) ==
    IF positions = <<>> THEN map
    ELSE subformulaToCell(
            IF IsConnectiveToken(tokenAt(layouts, Head(positions)))
            THEN Map_set(map,
                    sentence_to_string_compact(
                        tokenAt(layouts, Head(positions)).subformula, TRUE),
                    [formulaIdx |-> Head(positions)[1], tokenIdx |-> Head(positions)[2]])
            ELSE map,
            layouts, Tail(positions))

\* A mutation of getSubformulaDependencies: atomic operands are kept.
getSubformulaDependencies_with_atoms(s) ==
    CASE s.tag \in {"value", "letter"} -> <<>>
      [] s.tag = "negation" -> <<s.sentence>>
      [] OTHER -> <<s.left, s.right>>

\* A mutation of getSubformulaDependencies: a connective depends on itself.
getSubformulaDependencies_with_self(s) ==
    CASE s.tag \in {"value", "letter"} -> <<>>
      [] OTHER -> <<s>>

\* getSubformulaDependencies
getSubformulaDependencies(s) ==
    CASE s.tag \in {"value", "letter"} -> <<>>
      [] s.tag = "negation" ->
            IF s.sentence.tag = "letter" \/ s.sentence.tag = "value" THEN <<>>
            ELSE <<s.sentence>>
      [] OTHER ->
            (IF s.left.tag # "letter" /\ s.left.tag # "value" THEN <<s.left>> ELSE <<>>)
            \o (IF s.right.tag # "letter" /\ s.right.tag # "value" THEN <<s.right>> ELSE <<>>)

\* The loop over deps: the cell keys of the dependencies the map knows.
RECURSIVE depCellKeys(_, _)
depCellKeys(deps, toCell) ==
    IF deps = <<>> THEN <<>>
    ELSE (IF sentence_to_string_compact(Head(deps), TRUE) \in DOMAIN toCell
          THEN <<cellKeyOf(toCell[sentence_to_string_compact(Head(deps), TRUE)].formulaIdx,
                           toCell[sentence_to_string_compact(Head(deps), TRUE)].tokenIdx)>>
          ELSE <<>>)
         \o depCellKeys(Tail(deps), toCell)

\* cellDependencies: the cell key of each connective token mapped to the cell
\* keys it depends on.
RECURSIVE cellDependencies(_, _, _, _)
cellDependencies(map, layouts, positions, toCell) ==
    IF positions = <<>> THEN map
    ELSE cellDependencies(
            IF IsConnectiveToken(tokenAt(layouts, Head(positions)))
            THEN Map_set(map, cellKeyOf(Head(positions)[1], Head(positions)[2]),
                    depCellKeys(
                        getSubformulaDependencies(
                            tokenAt(layouts, Head(positions)).subformula),
                        toCell))
            ELSE map,
            layouts, Tail(positions), toCell)

\* currentMode === 'quiz' ? true : showQuasiColumns
effectiveShowQuasi(mode, showQuasi) == IF mode = "quiz" THEN TRUE ELSE showQuasi

\* valueIdx when the loop over the tokens reaches tokenIdx (counted from 0)
valueIdxAt(tokens, tokenIdx) ==
    Cardinality({k \in 1..tokenIdx : tokens[k].type = "value"})

\* cellDependencies.get(cellKey) || []
depsOf(dependencies, cellKey) ==
    IF cellKey \in DOMAIN dependencies THEN dependencies[cellKey] ELSE <<>>

\* deps.every(depKey => userAnswers.has(`${rowIdx}-${depKey}`))
depsAreFilled(deps, rowIdx, answers) ==
    \A k \in 1..Len(deps) : depCellIdOf(rowIdx, deps[k]) \in DOMAIN answers

ValueText(v) == IF v THEN "u22A4" ELSE "u22A5"

\* Map.prototype.get, "" standing for undefined
Map_get(m, key) == IF key \in DOMAIN m THEN m[key] ELSE ""

\* The td of a value token: the computed value (or nothing when it is not
\* shown), a locked cell, or a dropdown (renderQuizCell).
renderValueCell(mode, showQuasi, answers, statuses, deps, rowIdx, cellId, token, evaluated) ==
    IF ~(/\ mode = "quiz"
         /\ (effectiveShowQuasi(mode, showQuasi) \/ evaluated.isMain)
         /\ ~(token.subformula.tag = "letter"))
    THEN [kind |-> "value",
          text |-> IF effectiveShowQuasi(mode, showQuasi) \/ evaluated.isMain
                   THEN ValueText(evaluated.value) ELSE ""]
    ELSE IF ~depsAreFilled(deps, rowIdx, answers)
    THEN [kind |-> "locked", text |-> "?"]
    ELSE [kind |-> "dropdown", cellId |-> cellId,
          selected |-> Map_get(answers, cellId), status |-> Map_get(statuses, cellId)]

\* The tds of one formula in one row.
renderTokens(mode, showQuasi, answers, statuses, dependencies, rowIdx, formulaIdx, tokens, evaluatedValues) ==
    [t \in 1..Len(tokens) |->
        IF tokens[t].type = "text" THEN [kind |-> "text", text |-> ""]
        ELSE renderValueCell(mode, showQuasi, answers, statuses,
                depsOf(dependencies, cellKeyOf(formulaIdx, t - 1)), rowIdx,
                cellIdOf(rowIdx, formulaIdx, t - 1), tokens[t],
                evaluatedValues[valueIdxAt(tokens, t - 1) + 1])]

\* The rows of the table body.
renderRows(rows, layouts, mode, showQuasi, answers, statuses, dependencies) ==
    [r \in 1..Len(rows) |->
        [f \in 1..Len(layouts) |->
            renderTokens(mode, showQuasi, answers, statuses, dependencies, r - 1, f - 1,
                layouts[f].tokens,
                evaluateLayout(layouts[f].tokens, rows[r].assignment))]]

renderTable(rows, layouts, mode, showQuasi, answers, statuses) ==
    renderRows(rows, layouts, mode, showQuasi, answers, statuses,
        cellDependencies(<<>>, layouts, tokenPositions(layouts, 0),
            subformulaToCell(<<>>, layouts, tokenPositions(layouts, 0))))

renderTruthTable(table, mode, showQuasi, answers, statuses) ==
    renderTable(table.rows, layoutsOf(table.formulas), mode, showQuasi, answers, statuses)

Placeholder == [tag |-> "placeholder"]

\* renderOutputSection: the placeholder, or the controls of the mode and the
\* table.
renderOutputSection(table, mode, showQuasi, answers, statuses) ==
    IF table = NoResult THEN Placeholder
    ELSE [tag |-> "table", mode |-> mode,
          rows |-> renderTruthTable(table, mode, showQuasi, answers, statuses)]

\* A token whose cells checkAnswers, toggleRevealAnswers and getQuizStats do
\* not skip: a value token that is shown and is not a letter.
IsQuizToken(token, mode, showQuasi) ==
    /\ token.type = "value"
    /\ (effectiveShowQuasi(mode, showQuasi) \/ token.isMain)
    /\ token.subformula.tag # "letter"

\* The cells they visit, as (rowIdx, formulaIdx, tokenIdx) counted from 0.
QuizCellsOf(rows, layouts, mode, showQuasi) ==
    UNION {{<<r, f, t>> :
               r \in 0..(Len(rows) - 1),
               t \in {k \in 0..(Len(layouts[f + 1].tokens) - 1) :
                         IsQuizToken(layouts[f + 1].tokens[k + 1], mode, showQuasi)}}
           : f \in 0..(Len(layouts) - 1)}

\* evalResult.value of a visited cell
correctAnswerOf(rows, layouts, c) ==
    evaluateLayout(layouts[c[2] + 1].tokens, rows[c[1] + 1].assignment)
        [valueIdxAt(layouts[c[2] + 1].tokens, c[3]) + 1].value

cellIdOfCell(c) == cellIdOf(c[1], c[2], c[3])

\* The visited cell of an id.
cellOfId(cells, id) == CHOOSE c \in cells : cellIdOfCell(c) = id

\* A mutation of checkedStatuses: every answered cell is marked correct.
checkedStatuses_all_correct(rows, layouts, cells, answers) ==
    [id \in {cellIdOfCell(c) : c \in {d \in cells : cellIdOfCell(d) \in DOMAIN answers}} |->
        "correct"]

\* checkAnswers: cellStatuses after the loops. Every visited cell with an
\* answer gets its status; each cell is visited once.
checkedStatuses(rows, layouts, cells, answers) ==
    [id \in {cellIdOfCell(c) : c \in {d \in cells : cellIdOfCell(d) \in DOMAIN answers}} |->
        IF (answers[id] = "T") = correctAnswerOf(rows, layouts, cellOfId(cells, id))
        THEN "correct" ELSE "incorrect"]

\* toggleRevealAnswers: userAnswers after the loops.
revealedAnswers(rows, layouts, cells, answers) ==
    [id \in DOMAIN answers \cup {cellIdOfCell(c) : c \in cells} |->
        IF \E c \in cells : cellIdOfCell(c) = id
        THEN (IF correctAnswerOf(rows, layouts, cellOfId(cells, id)) THEN "T" ELSE "F")
        ELSE answers[id]]

\* toggleRevealAnswers: cellStatuses after the loops.
revealedStatuses(cells, statuses) ==
    [id \in DOMAIN statuses \cup {cellIdOfCell(c) : c \in cells} |->
        IF \E c \in cells : cellIdOfCell(c) = id THEN "correct" ELSE statuses[id]]

(***************************************************************************)
(* Inputs of the pure functions                                            *)
(***************************************************************************)
\* Longest batch handed to generate_truth_table.
MaxBatch == 2
\* Most nodes of a sentence handed to evaluate.
MaxNodes == 3

\* All sentences of exactly n nodes over the given atoms.
RECURSIVE SentencesOfSize(_, _)
SentencesOfSize(atoms, n) ==
    IF n = 1 THEN atoms
    ELSE {not(s) : s \in SentencesOfSize(atoms, n - 1)}
         \cup UNION {{binary(t, l, r) : t \in BinaryTags,
                                       l \in SentencesOfSize(atoms, i),
                                       r \in SentencesOfSize(atoms, n - 1 - i)}
                     : i \in 1..(n - 2)}

SentencesUpTo(atoms, n) == UNION {SentencesOfSize(atoms, k) : k \in 1..n}

RECURSIVE SeqsUpTo(_, _)
SeqsUpTo(S, n) ==
    IF n = 0 THEN {<<>>}
    ELSE SeqsUpTo(S, n - 1)
         \cup {Append(q, x) : q \in {p \in SeqsUpTo(S, n - 1) : Len(p) = n - 1}, x \in S}

\* Formulas of a batch: letters A, A1 and B (two ids, two indexes), a constant,
\* their negations, and every connective over operand pairs whose order of
\* occurrence differs from their sorted order or that repeat a letter.
TableAtoms == {letter("A", 0), letter("A", 1), letter("B", 0), val(TRUE)}
TableOperandPairs ==
    {<<letter("B", 0), letter("A", 0)>>, <<letter("A", 1), letter("A", 0)>>,
     <<letter("A", 0), val(TRUE)>>, <<letter("A", 0), letter("A", 0)>>}
TableFormulas ==
    TableAtoms \cup {not(a) : a \in TableAtoms}
    \cup {binary(t, p[1], p[2]) : t \in BinaryTags, p \in TableOperandPairs}
Batches == SeqsUpTo(TableFormulas, MaxBatch)

EvalAtoms == {letter("A", 0), letter("B", 0), val(TRUE), val(FALSE)}
EvalSentences == SentencesUpTo(EvalAtoms, MaxNodes)
\* Every Map from some of the keys "A", "B" to a boolean.
EvalAssignments ==
    UNION {[K -> BOOLEAN] : K \in SUBSET {<<"A">>, <<"B">>}}

(***************************************************************************)
(* generate_truth_table applied to a batch                                 *)
(***************************************************************************)
IdleTable == batch = <<>> /\ result = NoResult
IdleEval == evalSentence = val(TRUE) /\ evalAssignment = <<>> /\ evalResult = NoResult

IdleCompact == keySentences = <<>> /\ keys = <<>>
NotParsed == [pending |-> TRUE]
NoOrigin == [tag |-> "none"]
IdleParse ==
    parseInput = <<>> /\ parseResult = NotParsed /\ parseOrigin = NoOrigin
NoLayout == <<>>
IdleLayout == layoutOut = NoLayout

\* No reveal is in effect: there was none since the quiz state was reset, or
\* the last one was hidden.
NoReveal == [tag |-> "none"]
Hidden == [tag |-> "hidden"]

\* The state after the module is loaded and render() has run once.
InitPage ==
    /\ formulas = <<EmptyFormula>>
    /\ currentResult = NoResult
    /\ showQuasiColumns = TRUE
    /\ batchMode = FALSE
    /\ batchText = <<>>
    /\ highlightedRows = {}
    /\ currentMode = "calculator"
    /\ userAnswers = <<>>
    /\ cellStatuses = <<>>
    /\ quizChecked = FALSE
    /\ answersRevealed = FALSE
    /\ savedAnswersBeforeReveal = <<>>
    /\ savedStatusesBeforeReveal = <<>>
    /\ savedQuizCheckedBeforeReveal = FALSE
    /\ view = Placeholder
    /\ generateDisabled = TRUE
    /\ steps = 0
    /\ atReveal = NoReveal

InitTable ==
    /\ batch \in Batches /\ result = NoResult /\ IdleEval /\ IdleCompact /\ IdleParse
    /\ IdleLayout
    /\ InitPage

Generate ==
    /\ result = NoResult
    /\ result' = generate_truth_table(batch)
    /\ UNCHANGED <<batch, evalSentence, evalAssignment, evalResult,
                   keySentences, keys, parseInput, parseResult, parseOrigin>>
    /\ UNCHANGED layoutOut
    /\ UNCHANGED pageVars

NextTable == Generate

SpecTable == InitTable /\ [][NextTable]_vars

(***************************************************************************)
(* evaluate applied to a sentence and an assignment                        *)
(***************************************************************************)
InitEval ==
    /\ evalSentence \in EvalSentences
    /\ evalAssignment \in EvalAssignments
    /\ evalResult = NoResult
    /\ IdleTable
    /\ IdleCompact
    /\ IdleParse
    /\ IdleLayout
    /\ InitPage

Evaluate ==
    /\ evalResult = NoResult
    /\ evalResult' = evaluate(evalAssignment, evalSentence)
    /\ UNCHANGED <<batch, result, evalSentence, evalAssignment,
                   keySentences, keys, parseInput, parseResult, parseOrigin>>
    /\ UNCHANGED layoutOut
    /\ UNCHANGED pageVars

NextEval == Evaluate

SpecEval == InitEval /\ [][NextEval]_vars

(***************************************************************************)
(* sentence_to_string_compact applied to two sentences                     *)
(***************************************************************************)
\* Constants, the letters T and F, and a letter with an index.
CompactAtoms ==
    {val(TRUE), val(FALSE), letter("T", 0), letter("F", 0), letter("T", 1)}
CompactSentences == SentencesUpTo(CompactAtoms, MaxNodes)

InitCompact ==
    /\ keySentences \in CompactSentences \X CompactSentences
    /\ keys = <<>>
    /\ IdleTable
    /\ IdleEval
    /\ IdleParse
    /\ IdleLayout
    /\ InitPage

RenderCompact ==
    /\ keys = <<>>
    /\ keys' = <<sentence_to_string_compact(keySentences[1], TRUE),
                 sentence_to_string_compact(keySentences[2], TRUE)>>
    /\ UNCHANGED <<batch, result, evalSentence, evalAssignment, evalResult,
                   keySentences, parseInput, parseResult, parseOrigin>>
    /\ UNCHANGED layoutOut
    /\ UNCHANGED pageVars

NextCompact == RenderCompact

SpecCompact == InitCompact /\ [][NextCompact]_vars

\* C5: the compact string is a collision-free key: two sentences have the
\* same compact string exactly when they are structurally equal.
CompactStringIsCollisionFree ==
    keys # <<>> => ((keys[1] = keys[2]) <=> (keySentences[1] = keySentences[2]))

(***************************************************************************)
(* parse_sentence applied to an input, and to the spaced string of what it *)
(* returned                                                                *)
(***************************************************************************)
\* Longest input made of arbitrary tokens.
MaxTokens == 3
\* Most operands of a chain "A op B op C ..." written without brackets.
MaxChain == 3

Opens == {"(", "[", "{"}
Closes == {")", "]", "}"}
Tokens ==
    {<<"A">>, <<"B">>, <<" ">>, <<"~">>, <<"(">>, <<")">>, <<"[">>, <<"]">>,
     <<"{">>, <<"}">>}
    \cup {connectives(tag) : tag \in BinaryTags}

\* Every concatenation of at most n tokens.
RECURSIVE TokenStrings(_)
TokenStrings(n) ==
    IF n = 0 THEN {<<>>}
    ELSE TokenStrings(n - 1)
         \cup {p \o tok : p \in TokenStrings(n - 1), tok \in Tokens}

\* "A op B op C ...": k operands joined by any connectives, with or without
\* spaces around the connectives.
ChainLetters == <<"A", "B", "C", "D", "E">>

RECURSIVE ChainTexts(_, _)
ChainTexts(k, space) ==
    IF k = 1 THEN {<<ChainLetters[1]>>}
    ELSE {c \o space \o connectives(tag) \o space \o <<ChainLetters[k]>> :
             c \in ChainTexts(k - 1, space), tag \in BinaryTags}

Cores ==
    UNION {ChainTexts(k, space) : k \in 1..MaxChain, space \in {<<>>, <<" ">>}}
    \cup {<<"~", "A">>, <<"~", " ", "A">>, <<"~", "~", "A">>}

\* A core alone, negated, inside every pair of an opening and a closing
\* bracket, and as an operand of larger formulas.
Contexts(c) ==
    {c, <<"~">> \o c, <<" ">> \o c \o <<" ">>,
     <<"(", " ">> \o c \o <<" ", ")">>,
     <<"~", "(">> \o c \o <<")">>,
     <<"(", "(">> \o c \o <<")", ")">>,
     <<"(">> \o c \o <<")", "&", "B">>,
     <<"(">> \o c \o <<")", " ", "&", " ", "B">>,
     <<"B", " ", "v", " ", "(">> \o c \o <<")">>,
     <<"~", "(">> \o c \o <<")", " ", "<", "-", ">", " ", "B">>,
     <<"~", "(", "(">> \o c \o <<")", " ", "|", " ", "~", "B", ")">>,
     <<"(", "(">> \o c \o <<")", " ", "&", " ", "B", ")", " ", "v", " ", "C">>,
     <<"(">> \o c \o <<")", " ", "-", ">", " ", "(", "A", " ", "|", " ", "B", ")">>,
     <<"[">> \o c \o <<"]", " ", "+", " ", "{", "A", " ", "&", " ", "B", "}">>}
    \cup {<<open>> \o c \o <<close>> : open \in Opens, close \in Closes}

\* "A & (B & C)" and "(A & B) & C"
AssocRight == <<"A", " ", "&", " ", "(", "B", " ", "&", " ", "C", ")">>
AssocLeft == <<"(", "A", " ", "&", " ", "B", ")", " ", "&", " ", "C">>

\* Inputs whose letters are T and F, the characters constants are printed as,
\* and inputs with a digit after a letter.
LetterTexts ==
    {<<"T">>, <<"~", "F">>, <<"T", " ", "&", " ", "F">>, <<"T", "v", "Z">>,
     <<"A", "1">>, <<"A", "1", " ", "&", " ", "B">>, <<"a">>, <<"A", "B">>}

Texts ==
    TokenStrings(MaxTokens) \cup UNION {Contexts(c) : c \in Cores}
    \cup {AssocRight, AssocLeft} \cup LetterTexts

InitParse ==
    /\ parseInput \in Texts
    /\ parseResult = NotParsed
    /\ parseOrigin = NoOrigin
    /\ IdleTable
    /\ IdleEval
    /\ IdleCompact
    /\ IdleLayout
    /\ InitPage

\* validateFormula: parse_sentence(formula.text)
Parse ==
    /\ parseResult = NotParsed
    /\ parseResult' = parse_sentence(parseInput)
    /\ UNCHANGED <<batch, result, evalSentence, evalAssignment, evalResult,
                   keySentences, keys, parseInput, parseOrigin>>
    /\ UNCHANGED layoutOut
    /\ UNCHANGED pageVars

\* The parsed sentence is printed by sentence_to_string and the string is
\* parsed again.
Reparse ==
    /\ parseResult # NotParsed
    /\ parseResult.ok
    /\ parseOrigin = NoOrigin
    /\ parseOrigin' = parseResult.value
    /\ parseInput' = sentence_to_string(parseResult.value)
    /\ parseResult' = parse_sentence(sentence_to_string(parseResult.value))
    /\ UNCHANGED <<batch, result, evalSentence, evalAssignment, evalResult,
                   keySentences, keys>>
    /\ UNCHANGED layoutOut
    /\ UNCHANGED pageVars

NextParse == Parse \/ Reparse

SpecParse == InitParse /\ [][NextParse]_vars

(***************************************************************************)
(* layoutFormula and evaluateLayout applied to the formulas of a table     *)
(***************************************************************************)
\* Formulas laid out: every sentence of up to MaxNodes nodes over A, B and a
\* constant, and deeper ones with a binary operand on the left, on the
\* right, on both sides, under a negation, and with a repeated operand.
LayoutAtoms == {letter("A", 0), letter("B", 0), val(TRUE)}
LayoutTags == {"conjunction", "disjunction", "conditional"}
LayoutDeep ==
    UNION {{binary(t, binary(u, letter("A", 0), letter("B", 0)), letter("C", 0)),
            binary(t, letter("A", 0), binary(u, letter("B", 0), letter("C", 0))),
            binary(t, binary(u, letter("A", 0), letter("B", 0)),
                      binary(u, letter("B", 0), letter("C", 0))),
            binary(t, not(letter("A", 0)), not(letter("A", 0))),
            binary(t, not(binary(u, letter("A", 0), letter("B", 0))), val(FALSE)),
            not(binary(t, not(letter("A", 0)), letter("B", 0)))}
           : t \in LayoutTags, u \in LayoutTags}
LayoutSentences == SentencesUpTo(LayoutAtoms, MaxNodes) \cup LayoutDeep
LayoutSeconds == {letter("B", 0), not(letter("A", 0)), and(letter("A", 0), letter("C", 0))}
LayoutBatches ==
    {<<s>> : s \in LayoutSentences}
    \cup {<<s, t>> : s \in LayoutSentences, t \in LayoutSeconds}

InitLayout ==
    /\ batch \in LayoutBatches /\ result = NoResult /\ layoutOut = NoLayout
    /\ IdleEval /\ IdleCompact /\ IdleParse
    /\ InitPage

\* getSubformulaDependencies(token.subformula) of each token of a layout
dependenciesOf(tokens) ==
    [t \in 1..Len(tokens) |->
        IF tokens[t].type = "value" THEN getSubformulaDependencies(tokens[t].subformula)
        ELSE <<>>]

\* What renderTruthTable computes from a table: the layouts, the dependencies
\* of each token, the cell dependencies, and evaluateLayout of each layout in
\* each row.
laidOut(layouts, rows) ==
    [layouts |-> layouts,
     dependencies |-> [j \in 1..Len(layouts) |-> dependenciesOf(layouts[j].tokens)],
     cellDependencies |->
        cellDependencies(<<>>, layouts, tokenPositions(layouts, 0),
            subformulaToCell(<<>>, layouts, tokenPositions(layouts, 0))),
     evaluated |-> [r \in 1..Len(rows) |->
                      [j \in 1..Len(layouts) |->
                          evaluateLayout(layouts[j].tokens, rows[r].assignment)]]]

layoutOfTable(table) ==
    IF table = ThrownError THEN NoLayout
    ELSE laidOut(layoutsOf(table.formulas), table.rows)

\* generate_truth_table(batch), then the layouts of the table
Layout ==
    /\ result = NoResult
    /\ result' = generate_truth_table(batch)
    /\ layoutOut' = layoutOfTable(result')
    /\ UNCHANGED <<batch, evalSentence, evalAssignment, evalResult,
                   keySentences, keys, parseInput, parseResult, parseOrigin>>
    /\ UNCHANGED pageVars

NextLayout == Layout

SpecLayout == InitLayout /\ [][NextLayout]_vars

(***************************************************************************)
(* The page (main.ts): state and handlers                                  *)
(***************************************************************************)
\* Most formula inputs on the page.
MaxFormulas == 2
\* Most handler runs (clicks, inputs, changes) in one behaviour.
MaxSteps == 8
\* The user clicks rows, and changes answers in rows, of an index below this.
MaxUserRows == 1

\* What the user types into a formula input.
QuizTexts ==
    {<<>>, <<"A", " ", "&">>, <<"~", "A">>, <<"~", "~", "A">>}

\* What the user types into the batch textarea.
BatchTexts ==
    {<<"~", "A", " ", "&", " ", "~", "A", "\n", " ", "\n", "~", "~", "A">>}

Init == InitPage /\ IdleTable /\ IdleEval /\ IdleCompact /\ IdleParse /\ IdleLayout

\* render(): the output section and the generate button are rebuilt from the
\* state the handler leaves.
render ==
    /\ view' = renderOutputSection(currentResult', currentMode', showQuasiColumns',
                                   userAnswers', cellStatuses')
    /\ generateDisabled' = ~allValid(formulas')

\* resetQuizState()
resetQuizState ==
    /\ userAnswers' = <<>>
    /\ cellStatuses' = <<>>
    /\ quizChecked' = FALSE
    /\ answersRevealed' = FALSE
    /\ savedAnswersBeforeReveal' = <<>>
    /\ savedStatusesBeforeReveal' = <<>>
    /\ savedQuizCheckedBeforeReveal' = FALSE
    /\ atReveal' = NoReveal

\* The batch button
ToggleBatch ==
    /\ batchMode' = ~batchMode
    /\ batchText' = IF ~batchMode' THEN <<>> ELSE batchText
    /\ UNCHANGED <<formulas, currentResult, showQuasiColumns, highlightedRows,
                   currentMode, quizVars, atReveal>>
    /\ render
    /\ steps < MaxSteps /\ steps' = steps + 1
    /\ UNCHANGED pureVars

\* The Clear button
Clear ==
    /\ formulas' = <<EmptyFormula>>
    /\ batchText' = <<>>
    /\ currentResult' = NoResult
    /\ UNCHANGED <<showQuasiColumns, batchMode, highlightedRows, currentMode,
                   quizVars, atReveal>>
    /\ render
    /\ steps < MaxSteps /\ steps' = steps + 1
    /\ UNCHANGED pureVars

\* The input handler of the batch textarea (there is one in batch mode)
BatchInput ==
    /\ batchMode
    /\ \E text \in BatchTexts : batchText' = text
    /\ UNCHANGED <<formulas, currentResult, showQuasiColumns, batchMode,
                   highlightedRows, currentMode, quizVars, view, generateDisabled,
                   atReveal>>
    /\ steps < MaxSteps /\ steps' = steps + 1
    /\ UNCHANGED pureVars

\* lines = batchText.split('\n').filter(l => l.trim())
loadedLines == SelectSeq(split(batchText, <<>>), IsNonBlank)

\* The Load Formulae button (there is one in batch mode)
LoadFormulae ==
    /\ batchMode
    /\ formulas' = IF Len(loadedLines) > 0
                   THEN validateAll(formulasOfLines(loadedLines))
                   ELSE formulas
    /\ batchMode' = FALSE
    /\ batchText' = <<>>
    /\ UNCHANGED <<currentResult, showQuasiColumns, highlightedRows, currentMode,
                   quizVars, atReveal>>
    /\ render
    /\ steps < MaxSteps /\ steps' = steps + 1
    /\ UNCHANGED pureVars

\* clearTruthTable(): the output section is replaced only when a table was
\* on display.
clearTruthTable ==
    /\ currentResult' = NoResult
    /\ view' = IF currentResult # NoResult
               THEN renderOutputSection(NoResult, currentMode, showQuasiColumns,
                                        userAnswers, cellStatuses)
               ELSE view

\* The input handler of formula input index (counted from 0): validateFormula,
\* renderFormulaRow, updateGenerateButton, clearTruthTable.
Input ==
    /\ \E index \in 0..(Len(formulas) - 1) : \E text \in QuizTexts :
          formulas' = [formulas EXCEPT ![index + 1] =
                          validateFormula([formulas[index + 1] EXCEPT !.text = text])]
    /\ generateDisabled' = ~allValid(formulas')
    /\ clearTruthTable
    /\ UNCHANGED <<showQuasiColumns, batchMode, batchText, highlightedRows,
                   currentMode, quizVars, atReveal>>
    /\ steps < MaxSteps /\ steps' = steps + 1
    /\ UNCHANGED pureVars

\* The remove button of formula input index (there is one per input when
\* there are two inputs or more)
Remove ==
    /\ Len(formulas) > 1
    /\ \E index \in 0..(Len(formulas) - 1) : formulas' = splice(formulas, index)
    /\ UNCHANGED <<currentResult, showQuasiColumns, batchMode, batchText,
                   highlightedRows, currentMode, quizVars, atReveal>>
    /\ render
    /\ steps < MaxSteps /\ steps' = steps + 1
    /\ UNCHANGED pureVars

\* The Add Formula button
Add ==
    /\ Len(formulas) < MaxFormulas
    /\ formulas' = Append(formulas, EmptyFormula)
    /\ UNCHANGED <<currentResult, showQuasiColumns, batchMode, batchText,
                   highlightedRows, currentMode, quizVars, atReveal>>
    /\ render
    /\ steps < MaxSteps /\ steps' = steps + 1
    /\ UNCHANGED pureVars

\* The Calculator and the Quiz button; a click on the button of the current
\* mode changes nothing.
SwitchMode ==
    /\ \E mode \in {"calculator", "quiz"} : currentMode # mode /\ currentMode' = mode
    /\ resetQuizState
    /\ UNCHANGED <<formulas, currentResult, showQuasiColumns, batchMode, batchText,
                   highlightedRows>>
    /\ render
    /\ steps < MaxSteps /\ steps' = steps + 1
    /\ UNCHANGED pureVars

\* calculateTruthTables, on the table generate_truth_table returns; when it
\* throws the handler ends before currentResult is assigned and render() runs.
calculated(table) ==
    IF table = ThrownError
    THEN UNCHANGED <<currentResult, view, generateDisabled>>
    ELSE currentResult' = table /\ render

\* The generate button (a disabled button takes no click)
CalculateTruthTables ==
    /\ ~generateDisabled
    /\ highlightedRows' = {}
    /\ formulas' = validateAll(formulas)
    /\ UNCHANGED <<showQuasiColumns, batchMode, batchText, currentMode, quizVars,
                   atReveal>>
    /\ IF Len(validFormulas(formulas')) = 0
       THEN currentResult' = NoResult /\ render
       ELSE calculated(generate_truth_table(validFormulas(formulas')))
    /\ steps < MaxSteps /\ steps' = steps + 1
    /\ UNCHANGED pureVars

\* The Show Quasi-Columns checkbox (rendered with a table in calculator mode)
ToggleQuasiColumns ==
    /\ view.tag = "table" /\ view.mode = "calculator"
    /\ showQuasiColumns' = ~showQuasiColumns
    /\ UNCHANGED <<formulas, currentResult, batchMode, batchText, highlightedRows,
                   currentMode, quizVars, atReveal>>
    /\ render
    /\ steps < MaxSteps /\ steps' = steps + 1
    /\ UNCHANGED pureVars

\* A click on a row of the table (rows take clicks in calculator mode)
ToggleHighlight ==
    /\ view.tag = "table" /\ view.mode = "calculator"
    /\ \E rowIdx \in 0..(Len(view.rows) - 1) :
          /\ rowIdx < MaxUserRows
          /\ highlightedRows' = IF rowIdx \in highlightedRows
                                THEN highlightedRows \ {rowIdx}
                                ELSE highlightedRows \cup {rowIdx}
    /\ UNCHANGED <<formulas, currentResult, showQuasiColumns, batchMode, batchText,
                   currentMode, quizVars, atReveal>>
    /\ render
    /\ steps < MaxSteps /\ steps' = steps + 1
    /\ UNCHANGED pureVars

\* The quiz controls are rendered with a table in quiz mode.
QuizControlsShown == view.tag = "table" /\ view.mode = "quiz"

\* checkAnswers on a table
checkAnswersOn(rows, layouts) ==
    /\ cellStatuses' = checkedStatuses(rows, layouts,
                          QuizCellsOf(rows, layouts, currentMode, showQuasiColumns),
                          userAnswers)
    /\ quizChecked' = TRUE
    /\ UNCHANGED <<userAnswers, answersRevealed, savedAnswersBeforeReveal,
                   savedStatusesBeforeReveal, savedQuizCheckedBeforeReveal, atReveal>>
    /\ render

\* The Check Answers button
CheckAnswers ==
    /\ QuizControlsShown
    /\ UNCHANGED <<formulas, currentResult, showQuasiColumns, batchMode, batchText,
                   highlightedRows, currentMode>>
    /\ IF currentResult = NoResult
       THEN UNCHANGED <<quizVars, view, generateDisabled, atReveal>>
       ELSE checkAnswersOn(currentResult.rows, layoutsOf(currentResult.formulas))
    /\ steps < MaxSteps /\ steps' = steps + 1
    /\ UNCHANGED pureVars

\* toggleRevealAnswers when the answers are revealed: the saved state is
\* restored.
hideAnswers ==
    /\ userAnswers' = savedAnswersBeforeReveal
    /\ cellStatuses' = savedStatusesBeforeReveal
    /\ quizChecked' = savedQuizCheckedBeforeReveal
    /\ answersRevealed' = FALSE
    /\ UNCHANGED <<savedAnswersBeforeReveal, savedStatusesBeforeReveal,
                   savedQuizCheckedBeforeReveal>>
    /\ atReveal' = Hidden
    /\ render

\* The quiz state a reveal finds.
quizStateNow ==
    [tag |-> "revealed", userAnswers |-> userAnswers, cellStatuses |-> cellStatuses,
     quizChecked |-> quizChecked]

\* A mutation of revealAnswersOn: the state is saved after the answers are
\* filled in.
revealAnswersOn_saved_late(rows, layouts, cells) ==
    /\ userAnswers' = revealedAnswers(rows, layouts, cells, userAnswers)
    /\ cellStatuses' = revealedStatuses(cells, cellStatuses)
    /\ savedAnswersBeforeReveal' = userAnswers'
    /\ savedStatusesBeforeReveal' = cellStatuses'
    /\ savedQuizCheckedBeforeReveal' = quizChecked
    /\ answersRevealed' = TRUE
    /\ quizChecked' = TRUE
    /\ atReveal' = quizStateNow
    /\ render

\* toggleRevealAnswers when they are not: the state is saved and every
\* visited cell gets its correct answer and the status 'correct'.
revealAnswersOn(rows, layouts, cells) ==
    /\ savedAnswersBeforeReveal' = userAnswers
    /\ savedStatusesBeforeReveal' = cellStatuses
    /\ savedQuizCheckedBeforeReveal' = quizChecked
    /\ userAnswers' = revealedAnswers(rows, layouts, cells, userAnswers)
    /\ cellStatuses' = revealedStatuses(cells, cellStatuses)
    /\ answersRevealed' = TRUE
    /\ quizChecked' = TRUE
    /\ atReveal' = quizStateNow
    /\ render

revealAnswers(rows, layouts) ==
    revealAnswersOn(rows, layouts,
        QuizCellsOf(rows, layouts, currentMode, showQuasiColumns))

\* The Reveal Answers / Hide Answers button
ToggleRevealAnswers ==
    /\ QuizControlsShown
    /\ UNCHANGED <<formulas, currentResult, showQuasiColumns, batchMode, batchText,
                   highlightedRows, currentMode>>
    /\ IF currentResult = NoResult
       THEN UNCHANGED <<quizVars, view, generateDisabled, atReveal>>
       ELSE IF answersRevealed THEN hideAnswers
       ELSE revealAnswers(currentResult.rows, layoutsOf(currentResult.formulas))
    /\ steps < MaxSteps /\ steps' = steps + 1
    /\ UNCHANGED pureVars

\* The Reset Quiz button
ResetQuiz ==
    /\ QuizControlsShown
    /\ resetQuizState
    /\ UNCHANGED <<formulas, currentResult, showQuasiColumns, batchMode, batchText,
                   highlightedRows, currentMode>>
    /\ render
    /\ steps < MaxSteps /\ steps' = steps + 1
    /\ UNCHANGED pureVars

\* A mutation of changeAnswer: the status of the cell is kept.
changeAnswer_keeps_status(cellId, choice) ==
    /\ userAnswers' = IF choice = "T" THEN Map_set(userAnswers, cellId, "T")
                      ELSE IF choice = "F" THEN Map_set(userAnswers, cellId, "F")
                      ELSE Map_delete(userAnswers, cellId)
    /\ cellStatuses' = cellStatuses

\* The change handler of the dropdown of a cell: choice is the option chosen,
\* another one than the option selected.
changeAnswer(cellId, choice) ==
    /\ userAnswers' = IF choice = "T" THEN Map_set(userAnswers, cellId, "T")
                      ELSE IF choice = "F" THEN Map_set(userAnswers, cellId, "F")
                      ELSE Map_delete(userAnswers, cellId)
    /\ cellStatuses' = IF quizChecked THEN Map_delete(cellStatuses, cellId)
                       ELSE cellStatuses

SelectAnswer ==
    /\ view.tag = "table"
    /\ \E r \in 1..Len(view.rows) : \E f \in 1..Len(view.rows[r]) :
       \E t \in 1..Len(view.rows[r][f]) : \E choice \in {"", "T", "F"} :
          /\ r - 1 < MaxUserRows
          /\ view.rows[r][f][t].kind = "dropdown"
          /\ choice # view.rows[r][f][t].selected
          /\ changeAnswer(view.rows[r][f][t].cellId, choice)
    /\ UNCHANGED <<formulas, currentResult, showQuasiColumns, batchMode, batchText,
                   highlightedRows, currentMode, quizChecked, answersRevealed,
                   savedAnswersBeforeReveal, savedStatusesBeforeReveal,
                   savedQuizCheckedBeforeReveal, atReveal>>
    /\ render
    /\ steps < MaxSteps /\ steps' = steps + 1
    /\ UNCHANGED pureVars

Next ==
    \/ ToggleBatch
    \/ Clear
    \/ BatchInput
    \/ LoadFormulae
    \/ Input
    \/ Remove
    \/ Add
    \/ SwitchMode
    \/ CalculateTruthTables
    \/ ToggleQuasiColumns
    \/ ToggleHighlight
    \/ CheckAnswers
    \/ ToggleRevealAnswers
    \/ ResetQuiz
    \/ SelectAnswer

Spec == Init /\ [][Next]_vars

(***************************************************************************)
(* The page, with a user who works through the quiz                        *)
(***************************************************************************)
\* Handler runs before the user settles on filling in the quiz.
MaxSetupSteps == 5

\* The user selects an answer in a cell, of any row, that shows none.
selectUnanswered ==
    /\ QuizControlsShown
    /\ \E r \in 1..Len(view.rows) : \E f \in 1..Len(view.rows[r]) :
       \E t \in 1..Len(view.rows[r][f]) : \E choice \in {"T", "F"} :
          /\ view.rows[r][f][t].kind = "dropdown"
          /\ view.rows[r][f][t].selected = ""
          /\ changeAnswer(view.rows[r][f][t].cellId, choice)
    /\ UNCHANGED steps

\* The change handler of the dropdown of that cell
FillAnswer ==
    /\ selectUnanswered
    /\ UNCHANGED <<formulas, currentResult, showQuasiColumns, batchMode, batchText,
                   highlightedRows, currentMode, quizChecked, answersRevealed,
                   savedAnswersBeforeReveal, savedStatusesBeforeReveal,
                   savedQuizCheckedBeforeReveal, atReveal>>
    /\ render
    /\ UNCHANGED pureVars

\* Any handler during the first MaxSetupSteps runs, answers at any time.
NextQuiz ==
    \/ steps < MaxSetupSteps /\ ToggleBatch
    \/ steps < MaxSetupSteps /\ Clear
    \/ steps < MaxSetupSteps /\ BatchInput
    \/ steps < MaxSetupSteps /\ LoadFormulae
    \/ steps < MaxSetupSteps /\ Input
    \/ steps < MaxSetupSteps /\ Remove
    \/ steps < MaxSetupSteps /\ Add
    \/ steps < MaxSetupSteps /\ SwitchMode
    \/ steps < MaxSetupSteps /\ CalculateTruthTables
    \/ steps < MaxSetupSteps /\ ToggleQuasiColumns
    \/ steps < MaxSetupSteps /\ ToggleHighlight
    \/ steps < MaxSetupSteps /\ CheckAnswers
    \/ steps < MaxSetupSteps /\ ToggleRevealAnswers
    \/ steps < MaxSetupSteps /\ ResetQuiz
    \/ steps < MaxSetupSteps /\ SelectAnswer
    \/ FillAnswer

\* The user goes on answering as long as some dropdown shows no answer. The
\* steps of FillAnswer are the steps of NextQuiz that select an answer and
\* leave steps alone, and the rest of the handler runs in every state, so
\* the fairness condition is stated on the selection.
SpecQuiz ==
    Init /\ [][NextQuiz]_vars /\ WF_<<userAnswers, steps>>(selectUnanswered)

(***************************************************************************)
(* Properties of the truth table                                           *)
(***************************************************************************)
\* The letters of a sentence, as a set of (id, index) letters.
RECURSIVE LettersOf(_)
LettersOf(s) ==
    CASE s.tag = "value" -> {}
      [] s.tag = "letter" -> {s}
      [] s.tag = "negation" -> LettersOf(s.sentence)
      [] OTHER -> LettersOf(s.left) \cup LettersOf(s.right)

BatchLetters(fs) == UNION {LettersOf(fs[j]) : j \in 1..Len(fs)}

\* The value a row's assignment gives a letter.
RowValue(row, l) == lookup(row.assignment, l)

\* C1: for a batch with n distinct letters generate_truth_table returns
\* max(1, 2^n) rows, their assignments are pairwise distinct, and every one of
\* the 2^n boolean combinations of the letters is the assignment of exactly
\* one row (a single row with the empty assignment when n = 0).
RowsCoverAllAssignments ==
    result # NoResult =>
        LET L == BatchLetters(batch)
            n == Cardinality(L)
        IN  /\ result.tag = "table"
            /\ Len(result.rows) = (IF n = 0 THEN 1 ELSE 2 ^ n)
            /\ \A i, j \in 1..Len(result.rows) :
                  i # j => result.rows[i].assignment # result.rows[j].assignment
            /\ \A f \in [L -> BOOLEAN] :
                  Cardinality({k \in 1..Len(result.rows) :
                      \A l \in L : RowValue(result.rows[k], l) = Return(f[l])}) = 1
            /\ n = 0 => DOMAIN result.rows[1].assignment = {}

\* A batch of two formulas with three distinct letters, two of them sharing
\* their id, has produced its eight rows.
RowsCoverWitness ==
    /\ result # NoResult
    /\ Len(batch) = 2
    /\ Cardinality(BatchLetters(batch)) = 3
    /\ Len(result.rows) = 8

\* C2: in the row of index state the letter at sorted position i is true
\* exactly when bit (n-1-i) of state is 0; so row 0 makes every letter true,
\* the last row makes every letter false, and the first letter is true in the
\* first half of the rows and false in the second half.
RowsInCanonicalBitOrder ==
    result # NoResult =>
        LET n == Len(result.letters)
            rows == result.rows
        IN  /\ result.tag = "table"
            /\ \A state \in 0..(Len(rows) - 1) : \A i \in 0..(n - 1) :
                  RowValue(rows[state + 1], result.letters[i + 1])
                     = Return((state \div (2 ^ (n - 1 - i))) % 2 = 0)
            /\ \A i \in 1..n :
                  /\ RowValue(rows[1], result.letters[i]) = Return(TRUE)
                  /\ RowValue(rows[Len(rows)], result.letters[i]) = Return(FALSE)
            /\ n > 0 => \A k \in 1..Len(rows) :
                  RowValue(rows[k], result.letters[1]) = Return(2 * k <= Len(rows))

\* A table of three letters has been produced: eight rows, the first letter
\* true in rows 0..3 only.
CanonicalBitOrderWitness ==
    /\ result # NoResult
    /\ result.tag = "table"
    /\ Len(result.letters) = 3
    /\ RowValue(result.rows[4], result.letters[1]) = Return(TRUE)
    /\ RowValue(result.rows[5], result.letters[1]) = Return(FALSE)

(***************************************************************************)
(* Properties of evaluate                                                  *)
(***************************************************************************)
\* The classical truth value of a sentence under a total valuation of the
\* letter strings.
RECURSIVE TruthValue(_, _)
TruthValue(v, s) ==
    CASE s.tag = "value" -> s.value
      [] s.tag = "letter" -> v[letter_string(s)]
      [] s.tag = "negation" -> ~TruthValue(v, s.sentence)
      [] s.tag = "conjunction" -> TruthValue(v, s.left) /\ TruthValue(v, s.right)
      [] s.tag = "disjunction" -> TruthValue(v, s.left) \/ TruthValue(v, s.right)
      [] s.tag = "conditional" -> TruthValue(v, s.left) => TruthValue(v, s.right)
      [] s.tag = "biconditional" -> TruthValue(v, s.left) <=> TruthValue(v, s.right)
      [] s.tag = "xor" -> ~(TruthValue(v, s.left) <=> TruthValue(v, s.right))
      [] s.tag = "nand" -> ~(TruthValue(v, s.left) /\ TruthValue(v, s.right))

Bound(assignment, s) ==
    \A l \in LettersOf(s) : letter_string(l) \in DOMAIN assignment

\* C3: under an assignment that binds its letters, evaluate returns the
\* constant for a value node, the assigned value for a letter, the complement
\* for a negation, and the standard truth function of the two operand values
\* for each of the six binary connectives.
EvaluateMatchesTruthFunctions ==
    (evalResult # NoResult /\ Bound(evalAssignment, evalSentence)) =>
        evalResult = Return(TruthValue(evalAssignment, evalSentence))

\* nand of two true operands has been evaluated (to false).
EvaluateWitness ==
    /\ evalResult = Return(FALSE)
    /\ evalSentence.tag = "nand"
    /\ Bound(evalAssignment, evalSentence)
    /\ TruthValue(evalAssignment, evalSentence.left)
    /\ TruthValue(evalAssignment, evalSentence.right)

\* C6: both operands of every binary connective are evaluated, so evaluating
\* a sentence that contains a letter the assignment has no entry for throws
\* the unbound-letter error instead of returning a boolean.
UnboundLetterAlwaysThrows ==
    (evalResult # NoResult /\ ~Bound(evalAssignment, evalSentence)) =>
        evalResult.threw

(***************************************************************************)
(* Properties of parse_sentence                                            *)
(***************************************************************************)
\* parse_sentence has been applied to parseInput.
Parsed == parseResult # NotParsed

\* The number of brackets open at position i of a text.
Depth(t, i) ==
    Cardinality({k \in 1..(i - 1) : t[k] \in Opens})
    - Cardinality({k \in 1..(i - 1) : t[k] \in Closes})

\* The binary connective whose typed symbol starts at position i of a text,
\* "none" when there is none; the "->" inside a "<->" is no conditional.
ConnAt(t, i) ==
    CASE P_string(connectives("biconditional"), t, i).ok -> "biconditional"
      [] P_string(connectives("conditional"), t, i).ok /\ (i = 1 \/ t[i - 1] # "<")
            -> "conditional"
      [] P_string(connectives("disjunction"), t, i).ok -> "disjunction"
      [] P_string(connectives("conjunction"), t, i).ok -> "conjunction"
      [] P_string(connectives("xor"), t, i).ok -> "xor"
      [] P_string(connectives("nand"), t, i).ok -> "nand"
      [] OTHER -> "none"

ConnPositions(t) == {i \in 1..Len(t) : ConnAt(t, i) # "none"}

\* Positions i < j lie in the same group: at the same depth, with no bracket
\* closing that depth between them.
SameGroup(t, i, j) ==
    /\ i < j
    /\ Depth(t, i) = Depth(t, j)
    /\ \A k \in i..j : Depth(t, k) >= Depth(t, i)

\* Two occurrences of one connective in one group: "A & B & C".
ChainedSame(t) ==
    \E i, j \in ConnPositions(t) : SameGroup(t, i, j) /\ ConnAt(t, i) = ConnAt(t, j)

\* Occurrences of two different connectives in one group: "A & B v C".
ChainedMixed(t) ==
    \E i, j \in ConnPositions(t) : SameGroup(t, i, j) /\ ConnAt(t, i) # ConnAt(t, j)

\* The closing bracket that ends the group opened at position i, 0 when the
\* group is never closed.
MatchingClose(t, i) ==
    LET ends == {j \in (i + 1)..Len(t) : t[j] \in Closes /\ Depth(t, j + 1) = Depth(t, i)}
    IN  IF ends = {} THEN 0 ELSE CHOOSE j \in ends : \A k \in ends : j <= k

ClosingOf(open) ==
    CASE open = "(" -> ")" [] open = "[" -> "]" [] open = "{" -> "}"

\* The bracket pair opened at i encloses a bare letter, or a negation (its
\* content starts with "~" and has no connective of its own), or closes with
\* a bracket of another kind.
BadPairAt(t, i) ==
    LET j == MatchingClose(t, i)
        content == trim(SubSeq(t, i + 1, j - 1))
    IN  /\ t[i] \in Opens
        /\ j # 0
        /\ \/ t[j] # ClosingOf(t[i])
           \/ Len(content) = 1 /\ \E k \in 1..Len(UpperCase) : UpperCase[k] = content[1]
           \/ /\ content # <<>>
              /\ content[1] = "~"
              /\ \A k \in (i + 1)..(j - 1) :
                    ConnAt(t, k) = "none" \/ Depth(t, k) # Depth(t, i) + 1

BadBracket(t) == \E i \in 1..Len(t) : BadPairAt(t, i)

\* The number of binary nodes of a sentence.
RECURSIVE BinaryCount(_)
BinaryCount(s) ==
    CASE s.tag \in {"value", "letter"} -> 0
      [] s.tag = "negation" -> BinaryCount(s.sentence)
      [] OTHER -> 1 + BinaryCount(s.left) + BinaryCount(s.right)

\* The connectives of the binary nodes of a sentence.
RECURSIVE BinaryTagsOf(_)
BinaryTagsOf(s) ==
    CASE s.tag \in {"value", "letter"} -> {}
      [] s.tag = "negation" -> BinaryTagsOf(s.sentence)
      [] OTHER -> {s.tag} \cup BinaryTagsOf(s.left) \cup BinaryTagsOf(s.right)

\* evaluate returns the same for a and b under every assignment of the
\* letters of a.
SameEvaluation(a, b) ==
    \A assignment \in [{letter_string(l) : l \in LettersOf(a)} -> BOOLEAN] :
        evaluate(assignment, a) = evaluate(assignment, b)

\* The connectives whose display symbol is the symbol users type.
TypedAsDisplayed == {tag \in BinaryTags : <<DisplaySymbol(tag)>> = connectives(tag)}

\* C4 as stated: for every sentence s returned by a successful parse_sentence,
\* parse_sentence(sentence_to_string(s)) succeeds and its result evaluates to
\* the same value as s under every assignment of the letters of s.
RoundTripPreservesEvaluation ==
    parseOrigin # NoOrigin =>
        parseResult.ok /\ SameEvaluation(parseOrigin, parseResult.value)

\* C4 amended: for a sentence s returned by a successful parse_sentence,
\* parse_sentence(sentence_to_string(s)) succeeds exactly when every binary
\* connective of s is a conjunction or a nand (the two whose display symbol
\* is the typed one); it then returns s itself, which evaluates as s under
\* every assignment of the letters of s.
RoundTripOfTypedSymbols ==
    parseOrigin # NoOrigin =>
        /\ parseResult.ok <=> BinaryTagsOf(parseOrigin) \subseteq TypedAsDisplayed
        /\ parseResult.ok =>
              /\ parseResult.value = parseOrigin
              /\ SameEvaluation(parseOrigin, parseResult.value)
        /\ TypedAsDisplayed = {"conjunction", "nand"}

\* A negated conjunction with a nand operand went through the round trip.
RoundTripWitness ==
    /\ parseOrigin # NoOrigin
    /\ parseOrigin.tag = "negation"
    /\ BinaryTagsOf(parseOrigin) = {"conjunction", "nand"}
    /\ parseResult.ok
    /\ parseInput = sentence_to_string(parseOrigin)

\* C7: parse_sentence rejects every input in which one binary connective
\* occurs twice or more in one group (three or more operands chained without
\* grouping), at top level or inside brackets, for each of the six binary
\* connectives.
SameConnectiveChainRejected ==
    (Parsed /\ ChainedSame(parseInput)) => ~parseResult.ok

\* A chain of three operands of one connective inside brackets was parsed
\* (and rejected).
SameConnectiveChainWitness ==
    /\ Parsed
    /\ ~parseResult.ok
    /\ \E i, j \in ConnPositions(parseInput) :
          /\ SameGroup(parseInput, i, j)
          /\ ConnAt(parseInput, i) = "biconditional"
          /\ ConnAt(parseInput, j) = "biconditional"
          /\ Depth(parseInput, i) = 1
    /\ ~ChainedMixed(parseInput)
    /\ ~BadBracket(parseInput)

\* C8: no precedence or associativity is inferred. An input in which two
\* different binary connectives occur in one group is rejected, whatever the
\* two connectives; in an accepted input every group holds at most one
\* connective, every connective is a binary node of the result, and all the
\* binary nodes but at most one (the root) sit in a bracket pair.
NoPrecedenceInferred ==
    Parsed =>
        /\ ChainedMixed(parseInput) => ~parseResult.ok
        /\ parseResult.ok =>
              /\ ~ChainedSame(parseInput) /\ ~ChainedMixed(parseInput)
              /\ BinaryCount(parseResult.value) = Cardinality(ConnPositions(parseInput))
              /\ Cardinality({i \in ConnPositions(parseInput) : Depth(parseInput, i) = 0}) <= 1
              /\ Cardinality({i \in 1..Len(parseInput) : parseInput[i] \in Opens})
                    >= BinaryCount(parseResult.value) - 1

\* "A -> B <-> C" was parsed (and rejected).
NoPrecedenceWitness ==
    /\ Parsed
    /\ ~parseResult.ok
    /\ parseInput = <<"A", " ", "-", ">", " ", "B", " ", "<", "-", ">", " ", "C">>
    /\ ChainedMixed(parseInput)

\* C9: parse_sentence rejects every input in which a bracket pair directly
\* encloses a bare letter or a negation, at any depth, or closes with a
\* bracket of another kind than it opened with; "A" and "~A" are accepted.
BracketsOnlyAroundBinary ==
    Parsed =>
        /\ BadBracket(parseInput) => ~parseResult.ok
        /\ parseInput = <<"A">> => parseResult = ParseOk(letter("A", 0))
        /\ parseInput = <<"~", "A">> => parseResult = ParseOk(not(letter("A", 0)))

\* "(~A) & B" was parsed (and rejected).
BracketsWitness ==
    /\ Parsed
    /\ ~parseResult.ok
    /\ parseInput = <<"(", "~", "A", ")", " ", "&", " ", "B">>
    /\ BadBracket(parseInput)

(***************************************************************************)
(* Properties of the quiz cells                                            *)
(***************************************************************************)
IsAtomic(s) == s.tag = "letter" \/ s.tag = "value"

\* How many tokens the layout of s has.
RECURSIVE LayoutLen(_, _)
LayoutLen(s, isTopLevel) ==
    CASE IsAtomic(s) -> 1
      [] s.tag = "negation" -> 1 + LayoutLen(s.sentence, FALSE)
      [] OTHER -> (IF isTopLevel THEN 0 ELSE 2)
                  + LayoutLen(s.left, FALSE) + 1 + LayoutLen(s.right, FALSE)

\* Where the left operand of a binary s starts when s is laid out from
\* token index offset on, and where the value token of s itself is.
LeftOffset(offset, isTopLevel) == IF isTopLevel THEN offset ELSE offset + 1
OwnToken(s, offset, isTopLevel) ==
    IF IsAtomic(s) \/ s.tag = "negation" THEN offset
    ELSE LeftOffset(offset, isTopLevel) + LayoutLen(s.left, FALSE)

\* The token of an operand when the operand is not atomic.
OperandToken(s, offset) ==
    IF IsAtomic(s) THEN {} ELSE {OwnToken(s, offset, FALSE)}

\* One record per node of s laid out from token index offset on: the value
\* token of the node, the node, and the value tokens of its immediate
\* operands that are not atomic.
RECURSIVE OwnDependencies(_, _, _)
OwnDependencies(s, offset, isTopLevel) ==
    CASE IsAtomic(s) -> {[token |-> offset, node |-> s, deps |-> {}]}
      [] s.tag = "negation" ->
            {[token |-> offset, node |-> s,
              deps |-> OperandToken(s.sentence, offset + 1)]}
            \cup OwnDependencies(s.sentence, offset + 1, FALSE)
      [] OTHER ->
            {[token |-> OwnToken(s, offset, isTopLevel), node |-> s,
              deps |-> OperandToken(s.left, LeftOffset(offset, isTopLevel))
                       \cup OperandToken(s.right,
                                OwnToken(s, offset, isTopLevel) + 1)]}
            \cup OwnDependencies(s.left, LeftOffset(offset, isTopLevel), FALSE)
            \cup OwnDependencies(s.right, OwnToken(s, offset, isTopLevel) + 1, FALSE)

\* Every dependency cell of a token has an answer in the row.
OwnDependenciesAnswered(rowIdx, formulaIdx, deps) ==
    \A d \in deps : cellIdOf(rowIdx, formulaIdx, d) \in DOMAIN userAnswers

\* The cell the page shows for a token is the one the gating rule gives.
GatedCell(cell, rowIdx, formulaIdx, entry) ==
    IF entry.node.tag = "letter"
    THEN cell = [kind |-> "value",
                 text |-> ValueText(evaluate(currentResult.rows[rowIdx + 1].assignment,
                                             entry.node).value)]
    ELSE IF OwnDependenciesAnswered(rowIdx, formulaIdx, entry.deps)
    THEN cell.kind = "dropdown"
    ELSE cell.kind = "locked"

\* C10: in quiz mode, in every row, the cell of a value token that is not a
\* letter is a dropdown when every dependency cell of the token (the cells of
\* its immediate operands that are not atomic) has an answer in that row, and
\* is locked otherwise; the cell of a letter shows its computed value.
QuizCellsGatedByDependencies ==
    (QuizControlsShown /\ currentResult # NoResult) =>
        \A r \in 1..Len(view.rows) : \A f \in 1..Len(view.rows[r]) :
            \A entry \in OwnDependencies(currentResult.formulas[f], 0, TRUE) :
                GatedCell(view.rows[r][f][entry.token + 1], r - 1, f - 1, entry)

(***************************************************************************)
(* Properties of the layout                                                *)
(***************************************************************************)
LaidOut == layoutOut # NoLayout

\* The immediate operands of a node.
Operands(s) ==
    IF IsAtomic(s) THEN <<>>
    ELSE IF s.tag = "negation" THEN <<s.sentence>>
    ELSE <<s.left, s.right>>

IsNotAtomic(s) == ~IsAtomic(s)

\* "(A & B) v C": tokens ( A & B ) v C, counted from 0.
AndOrExample == or(and(letter("A", 0), letter("B", 0)), letter("C", 0))

\* C11: the direct dependencies of the sub-formula of a value token are
\* exactly its immediate operands that are not atomic (none for a letter or a
\* constant, no operand of an operand); in "(A & B) v C" the cell of the
\* disjunction depends on the cell of A & B only.
DirectDependenciesAreNonAtomicOperands ==
    LaidOut =>
        /\ \A j \in 1..Len(layoutOut.layouts) :
           \A t \in 1..Len(layoutOut.layouts[j].tokens) :
              layoutOut.layouts[j].tokens[t].type = "value" =>
                 layoutOut.dependencies[j][t]
                    = SelectSeq(Operands(layoutOut.layouts[j].tokens[t].subformula),
                                IsNotAtomic)
        /\ batch = <<AndOrExample>> =>
              /\ layoutOut.dependencies[1][6] = <<and(letter("A", 0), letter("B", 0))>>
              /\ layoutOut.cellDependencies[cellKeyOf(0, 5)] = <<cellKeyOf(0, 2)>>
              /\ layoutOut.cellDependencies[cellKeyOf(0, 2)] = <<>>

\* "(A & B) v C" was laid out.
DirectDependenciesWitness ==
    /\ LaidOut
    /\ batch = <<AndOrExample>>
    /\ layoutOut.layouts[1].tokens[6].subformula = AndOrExample
    /\ layoutOut.cellDependencies[cellKeyOf(0, 5)] = <<cellKeyOf(0, 2)>>

\* How many nodes of s are the sentence x, and how many nodes s has.
RECURSIVE Occurrences(_, _)
Occurrences(s, x) ==
    (IF s = x THEN 1 ELSE 0)
    + (CASE IsAtomic(s) -> 0
         [] s.tag = "negation" -> Occurrences(s.sentence, x)
         [] OTHER -> Occurrences(s.left, x) + Occurrences(s.right, x))

RECURSIVE NodeCount(_)
NodeCount(s) ==
    CASE IsAtomic(s) -> 1
      [] s.tag = "negation" -> 1 + NodeCount(s.sentence)
      [] OTHER -> 1 + NodeCount(s.left) + NodeCount(s.right)

RECURSIVE NodesOf(_)
NodesOf(s) ==
    {s} \cup (CASE IsAtomic(s) -> {}
                [] s.tag = "negation" -> NodesOf(s.sentence)
                [] OTHER -> NodesOf(s.left) \cup NodesOf(s.right))

ValueTokensOf(tokens) == {t \in 1..Len(tokens) : tokens[t].type = "value"}

\* The value tokens are the nodes of s, one token per node, and the main
\* token is the one token of s itself.
OneValueTokenPerNode(s, tokens) ==
    /\ Cardinality(ValueTokensOf(tokens)) = NodeCount(s)
    /\ \A t \in ValueTokensOf(tokens) : tokens[t].subformula \in NodesOf(s)
    /\ \A x \in NodesOf(s) :
          Cardinality({t \in ValueTokensOf(tokens) : tokens[t].subformula = x})
             = Occurrences(s, x)
    /\ Cardinality({t \in ValueTokensOf(tokens) : tokens[t].isMain}) = 1
    /\ \A t \in ValueTokensOf(tokens) : tokens[t].isMain => tokens[t].subformula = s

\* C12: layoutFormula(s) emits exactly one value token per node of s, atoms
\* included, each carrying that node as its subformula, and exactly one value
\* token has isMain = true: the one whose subformula is s.
LayoutHasOneValueTokenPerNode ==
    LaidOut =>
        \A j \in 1..Len(batch) :
            OneValueTokenPerNode(batch[j], layoutOut.layouts[j].tokens)

\* A formula with the same sub-formula twice and an atom twice was laid out.
OneValueTokenPerNodeWitness ==
    /\ LaidOut
    /\ batch[1] = and(not(letter("A", 0)), not(letter("A", 0)))
    /\ Cardinality(ValueTokensOf(layoutOut.layouts[1].tokens)) = 5
    /\ layoutOut.layouts[1].tokens[3].isMain

\* The tokens of s in display order: "(" and ")" around every binary node
\* below the root, the left operand before the connective before the right
\* operand, a negation immediately before its operand.
RECURSIVE DisplayOrder(_, _)
DisplayOrder(s, isRoot) ==
    CASE IsAtomic(s) -> <<[node |-> s]>>
      [] s.tag = "negation" -> <<[node |-> s]>> \o DisplayOrder(s.sentence, FALSE)
      [] OTHER ->
            (IF isRoot THEN <<>> ELSE <<[bracket |-> <<"(">>]>>)
            \o DisplayOrder(s.left, FALSE) \o <<[node |-> s]>> \o DisplayOrder(s.right, FALSE)
            \o (IF isRoot THEN <<>> ELSE <<[bracket |-> <<")">>]>>)

\* What a token shows: the bracket of a text token, the node of a value token.
Shown(token) ==
    IF token.type = "text" THEN [bracket |-> token.text] ELSE [node |-> token.subformula]

\* C13: layoutFormula emits the tokens in display order: no bracket around
\* the root, one "(" before and one ")" after every binary node below the
\* root, none around letters, constants and negations, left operand before
\* connective before right operand, a negation immediately before its
\* operand; "A -> B" gives value A, value of the conditional with isMain,
\* value B.
LayoutInDisplayOrder ==
    LaidOut =>
        /\ \A j \in 1..Len(batch) :
              [t \in 1..Len(layoutOut.layouts[j].tokens) |->
                    Shown(layoutOut.layouts[j].tokens[t])]
                 = DisplayOrder(batch[j], TRUE)
        /\ batch = <<imp(letter("A", 0), letter("B", 0))>> =>
              layoutOut.layouts[1].tokens
                 = <<ValueToken(<<"A">>, letter("A", 0), FALSE),
                     ValueToken(<<" ", "u2192", " ">>,
                                imp(letter("A", 0), letter("B", 0)), TRUE),
                     ValueToken(<<"B">>, letter("B", 0), FALSE)>>

\* A formula with a bracketed operand on each side was laid out.
DisplayOrderWitness ==
    /\ LaidOut
    /\ \E t \in LayoutTags, u \in LayoutTags :
          batch[1] = binary(t, binary(u, letter("A", 0), letter("B", 0)),
                               binary(u, letter("B", 0), letter("C", 0)))
    /\ Len(layoutOut.layouts[1].tokens) = 11
    /\ layoutOut.layouts[1].tokens[1] = TextToken(<<"(">>)
    /\ layoutOut.layouts[1].tokens[11] = TextToken(<<")">>)

\* The value tokens of a layout, in token order.
ValueTokenSeq(tokens) == SelectSeq(tokens, IsValueToken)

\* The entries of evaluateLayout are the values of the value tokens, and the
\* main entry is the value of the formula in the row.
EntriesMatch(entries, valueTokens, row, j) ==
    /\ Len(entries) = Len(valueTokens)
    /\ \A k \in 1..Len(entries) :
          entries[k] = [text |-> valueTokens[k].text,
                        value |-> TruthValue(row.assignment, valueTokens[k].subformula),
                        isMain |-> valueTokens[k].isMain]
    /\ Cardinality({k \in 1..Len(entries) : entries[k].isMain}) = 1
    /\ \A k \in 1..Len(entries) : entries[k].isMain => entries[k].value = row.values[j]

\* C20: for every formula j and row r of the table, evaluateLayout of the
\* layout of formula j under the assignment of row r has one entry per value
\* token in token order, each with the value of the token's sub-formula, and
\* the one entry with isMain = true has the value rows[r].values[j].
EvaluateLayoutAgreesWithTable ==
    (LaidOut /\ result # ThrownError) =>
        \A r \in 1..Len(result.rows) : \A j \in 1..Len(batch) :
            EntriesMatch(layoutOut.evaluated[r][j],
                         ValueTokenSeq(layoutOut.layouts[j].tokens),
                         result.rows[r], j)

\* Two formulas were laid out and evaluated in a table of eight rows, and in
\* some row a quasi-column differs from the main column.
EvaluateLayoutWitness ==
    /\ LaidOut
    /\ Len(batch) = 2
    /\ Len(result.rows) = 8
    /\ \E r \in 1..8 : \E k \in 1..Len(layoutOut.evaluated[r][1]) :
          layoutOut.evaluated[r][1][k].value # result.rows[r].values[1]

(***************************************************************************)
(* Further properties of the truth table                                   *)
(***************************************************************************)
Generated == result # NoResult

\* C14: generate_truth_table never raises the unbound-letter error: for every
\* batch whose letters have single-character ids and non-negative indexes the
\* call returns a table, and every letter of every formula has an entry in
\* the assignment of every row.
NoUnboundLetterInTable ==
    Generated =>
        /\ result # ThrownError
        /\ \A k \in 1..Len(result.rows) : \A l \in BatchLetters(batch) :
              /\ letter_string(l) \in DOMAIN result.rows[k].assignment
              /\ ~RowValue(result.rows[k], l).threw

\* A table was generated for a batch with the letters A and A1.
NoUnboundLetterWitness ==
    /\ Generated
    /\ result # ThrownError
    /\ {letter("A", 0), letter("A", 1)} \subseteq BatchLetters(batch)
    /\ Len(result.rows) >= 4

\* a comes before b in the order by id and then by index.
LetterBefore(a, b) ==
    \/ CharRank(a.id) < CharRank(b.id)
    \/ a.id = b.id /\ a.index < b.index

\* C15: the letters of the result are exactly the distinct (id, index)
\* letters of the formulas of the batch, each once, ascending by id and then
\* by index; constants contribute no letter.
LettersAreSortedUnion ==
    (Generated /\ result # ThrownError) =>
        /\ {result.letters[i] : i \in 1..Len(result.letters)} = BatchLetters(batch)
        /\ \A i, j \in 1..Len(result.letters) :
              i < j => LetterBefore(result.letters[i], result.letters[j])
        /\ \A i \in 1..Len(result.letters) : result.letters[i].tag = "letter"

\* A batch in which B occurs before A, A1 before A, A twice, and a constant,
\* has its letters A, A1, B.
LettersSortedWitness ==
    /\ Generated
    /\ result # ThrownError
    /\ batch = <<or(letter("A", 1), letter("A", 0)), and(letter("B", 0), letter("A", 0))>>
    /\ result.letters = <<letter("A", 0), letter("A", 1), letter("B", 0)>>

\* The state a row is made from: letter i (from 0) is bit n-1-i, true is 0.
RECURSIVE StateOf(_, _, _)
StateOf(row, letters, i) ==
    IF i > Len(letters) THEN 0
    ELSE (IF row.assignment[letter_string(letters[i])] THEN 0
          ELSE 2 ^ (Len(letters) - i))
         + StateOf(row, letters, i + 1)

\* C16: in every row values has one entry per formula of the batch and
\* values[j] is the value of formula j under the row's assignment;
\* result.formulas is the batch in its order; the rows are in increasing
\* state order.
ValuesFollowFormulaOrder ==
    (Generated /\ result # ThrownError) =>
        /\ result.formulas = batch
        /\ \A k \in 1..Len(result.rows) :
              /\ Len(result.rows[k].values) = Len(batch)
              /\ \A j \in 1..Len(batch) :
                    result.rows[k].values[j]
                       = TruthValue(result.rows[k].assignment, batch[j])
              /\ StateOf(result.rows[k], result.letters, 1) = k - 1

\* A table of two formulas that differ in value in some row.
ValuesOrderWitness ==
    /\ Generated
    /\ result # ThrownError
    /\ Len(batch) = 2
    /\ Len(result.rows) = 4
    /\ \E k \in 1..4 : result.rows[k].values[1] # result.rows[k].values[2]

(***************************************************************************)
(* Further properties of the parser                                        *)
(***************************************************************************)
\* The Maps from the letter strings A, B and C to a boolean.
AssocAssignments == [{<<"A">>, <<"B">>, <<"C">>} -> BOOLEAN]

\* C17: "A & (B & C)" and "(A & B) & C" both parse, to structurally different
\* sentences, and the two sentences evaluate to the same value under each of
\* the eight assignments of A, B and C.
BracketedConjunctionsAgree ==
    (Parsed /\ parseInput \in {AssocRight, AssocLeft}) =>
        /\ parseResult.ok
        /\ parseResult.value
              = (IF parseInput = AssocRight
                 THEN and(letter("A", 0), and(letter("B", 0), letter("C", 0)))
                 ELSE and(and(letter("A", 0), letter("B", 0)), letter("C", 0)))
        /\ parse_sentence(AssocRight).value # parse_sentence(AssocLeft).value
        /\ \A v \in AssocAssignments :
              /\ ~evaluate(v, parseResult.value).threw
              /\ evaluate(v, parse_sentence(AssocRight).value)
                    = evaluate(v, parse_sentence(AssocLeft).value)
              /\ evaluate(v, parseResult.value)
                    = Return(v[<<"A">>] /\ v[<<"B">>] /\ v[<<"C">>])

\* "A & (B & C)" was parsed.
BracketedConjunctionsWitness ==
    /\ Parsed
    /\ parseInput = AssocRight
    /\ parseResult.ok
    /\ parseResult.value.right.tag = "conjunction"

\* s is built from letters with an upper-case id and index 0, negations and
\* binary nodes only.
RECURSIVE OnlyPlainLetters(_)
OnlyPlainLetters(s) ==
    CASE s.tag = "letter" ->
            /\ \E k \in 1..Len(UpperCase) : UpperCase[k] = s.id
            /\ s.index = 0
      [] s.tag = "negation" -> OnlyPlainLetters(s.sentence)
      [] s.tag \in BinaryTags -> OnlyPlainLetters(s.left) /\ OnlyPlainLetters(s.right)
      [] OTHER -> FALSE

\* C18: a sentence returned by a successful parse_sentence is built only from
\* letter, negation and binary nodes: no value constant, and every letter has
\* one upper-case ASCII character as id and index 0.
ParsedSentencesHavePlainLetters ==
    (Parsed /\ parseResult.ok) => OnlyPlainLetters(parseResult.value)

\* "T & F" was parsed, to a conjunction of the letters T and F.
PlainLettersWitness ==
    /\ Parsed
    /\ parseInput = <<"T", " ", "&", " ", "F">>
    /\ parseResult = ParseOk(and(letter("T", 0), letter("F", 0)))

(***************************************************************************)
(* Properties of the page                                                  *)
(***************************************************************************)
\* Some formula input has a text that failed to parse, and some input parsed.
SomeFormulaFailed ==
    \E i \in 1..Len(formulas) : IsNonEmpty(formulas[i]) /\ formulas[i].error # NullString
SomeFormulaParsed == \E i \in 1..Len(formulas) : IsParsed(formulas[i])

\* C19: a syntax error in one formula is not fatal to the batch: when some
\* formula inputs fail to parse and at least one parses, the user can still
\* generate the table from the formulas that parsed: the generate button,
\* whose handler keeps exactly the parsed formulas in input order, takes a
\* click.
SyntaxErrorIsNotFatal ==
    (SomeFormulaFailed /\ SomeFormulaParsed) => ~generateDisabled

(***************************************************************************)
(* Properties of the quiz state                                            *)
(***************************************************************************)
\* C21: reveal followed by hide is a round trip: when toggleRevealAnswers
\* runs while the answers are revealed, userAnswers, cellStatuses and
\* quizChecked are back to what they were at the moment of the reveal,
\* whatever was selected or blanked in between, and answersRevealed is false.
RevealThenHideRestores ==
    [][(ToggleRevealAnswers /\ answersRevealed) =>
          /\ atReveal.tag = "revealed"
          /\ userAnswers' = atReveal.userAnswers
          /\ cellStatuses' = atReveal.cellStatuses
          /\ quizChecked' = atReveal.quizChecked
          /\ ~answersRevealed']_vars

\* The answers were hidden, and the hide brought back an answer and the
\* unchecked state the reveal had found.
RevealThenHideWitness ==
    /\ atReveal = Hidden
    /\ ~answersRevealed
    /\ ~quizChecked
    /\ userAnswers # <<>>
    /\ cellStatuses = <<>>

\* The quizzable cells of the table on display: one record per row, formula
\* and value token that is not a letter, with the id of the cell and the
\* value of the token's sub-formula in the row.
QuizzableCells ==
    UNION {{[id |-> cellIdOf(r - 1, f - 1, entry.token),
             value |-> TruthValue(currentResult.rows[r].assignment, entry.node)] :
               entry \in {e \in OwnDependencies(currentResult.formulas[f], 0, TRUE) :
                             e.node.tag # "letter"}}
           : r \in 1..Len(currentResult.rows), f \in 1..Len(currentResult.formulas)}

AnswerOf(value) == IF value THEN "T" ELSE "F"

\* The status a cell has in a Map of statuses, "" when it has none.
StatusIn(statuses, id) == IF id \in DOMAIN statuses THEN statuses[id] ELSE ""

\* C22: after checkAnswers on a displayed table every quizzable cell has
\* status 'correct' exactly when it has an answer equal to the value of its
\* sub-formula in its row, 'incorrect' exactly when it has an answer that
\* differs, and no status when it has no answer; quizChecked is true and
\* userAnswers is unchanged.
CheckAnswersMarksEveryAnswer ==
    [][(CheckAnswers /\ currentResult # NoResult) =>
          /\ \A c \in QuizzableCells :
                /\ StatusIn(cellStatuses', c.id) = "correct"
                      <=> (c.id \in DOMAIN userAnswers
                           /\ userAnswers[c.id] = AnswerOf(c.value))
                /\ StatusIn(cellStatuses', c.id) = "incorrect"
                      <=> (c.id \in DOMAIN userAnswers
                           /\ userAnswers[c.id] # AnswerOf(c.value))
                /\ StatusIn(cellStatuses', c.id) = ""
                      <=> c.id \notin DOMAIN userAnswers
          /\ quizChecked'
          /\ userAnswers' = userAnswers]_vars

\* Check Answers has run on a table with a right answer, a wrong answer and
\* a cell without answer.
CheckAnswersWitness ==
    /\ QuizControlsShown
    /\ currentResult # NoResult
    /\ quizChecked
    /\ atReveal = NoReveal
    /\ \E a, b, c \in QuizzableCells :
          /\ StatusIn(cellStatuses, a.id) = "correct"
          /\ StatusIn(cellStatuses, b.id) = "incorrect"
          /\ c.id \notin DOMAIN userAnswers
          /\ StatusIn(cellStatuses, c.id) = ""

(***************************************************************************)
(* Properties of the table on display                                      *)
(***************************************************************************)
\* C23: whenever a truth table is displayed its formulas are exactly the
\* parsed sentences of the current non-empty formula inputs, in input order.
TableShowsCurrentInputs ==
    currentResult # NoResult =>
        /\ \A i \in 1..Len(formulas) : IsNonEmpty(formulas[i]) => IsParsed(formulas[i])
        /\ currentResult.formulas = validFormulas(SelectSeq(formulas, IsNonEmpty))

\* C24: every cell with a status in cellStatuses has an answer in
\* userAnswers, and cellStatuses is empty whenever quizChecked is false.
StatusOnlyOnAnsweredCells ==
    /\ DOMAIN cellStatuses \subseteq DOMAIN userAnswers
    /\ ~quizChecked => cellStatuses = <<>>

\* After Check Answers an answer has been changed: its cell has an answer
\* and no status, while another cell keeps its status.
StatusOnlyOnAnsweredWitness ==
    /\ quizChecked
    /\ ~answersRevealed
    /\ cellStatuses # <<>>
    /\ DOMAIN userAnswers \ DOMAIN cellStatuses # {}

\* C25: in every quiz state with a table, each cell that holds a user answer
\* has, for the same row, a user answer in every one of its dependency cells.
AnsweredCellsHaveAnsweredDependencies ==
    (QuizControlsShown /\ currentResult # NoResult) =>
        \A r \in 1..Len(currentResult.rows) : \A f \in 1..Len(currentResult.formulas) :
            \A entry \in OwnDependencies(currentResult.formulas[f], 0, TRUE) :
                cellIdOf(r - 1, f - 1, entry.token) \in DOMAIN userAnswers =>
                    OwnDependenciesAnswered(r - 1, f - 1, entry.deps)

(***************************************************************************)
(* Properties of the dependency lookup                                     *)
(***************************************************************************)
\* The cell keys of a set of tokens of one formula.
CellKeysOf(formulaIdx, tokens) == {cellKeyOf(formulaIdx, d) : d \in tokens}

\* The elements of a sequence.
Range(seq) == {seq[k] : k \in 1..Len(seq)}

\* C26: the dependency lookup resolves each direct dependency of a token to
\* the value token of that operand's own occurrence: a token of the same
\* formula, among the tokens of the operand of the depending connective,
\* also when a sub-formula occurs more than once in the batch.
DependenciesResolveToOwnOccurrence ==
    LaidOut =>
        \A j \in 1..Len(batch) :
            \A entry \in {e \in OwnDependencies(batch[j], 0, TRUE) : ~IsAtomic(e.node)} :
                /\ Len(layoutOut.cellDependencies[cellKeyOf(j - 1, entry.token)])
                      = Cardinality(entry.deps)
                /\ Range(layoutOut.cellDependencies[cellKeyOf(j - 1, entry.token)])
                      = CellKeysOf(j - 1, entry.deps)

(***************************************************************************)
(* Properties of the statuses                                              *)
(***************************************************************************)
\* C27: with a truth table displayed, each cell of the table whose status is
\* 'correct' holds a user answer equal to the value of the cell's
\* sub-formula in its row of the current table, and each cell whose status
\* is 'incorrect' holds the opposite answer.
StatusesAgreeWithTable ==
    currentResult # NoResult =>
        \A c \in QuizzableCells :
            /\ StatusIn(cellStatuses, c.id) = "correct" =>
                  Map_get(userAnswers, c.id) = AnswerOf(c.value)
            /\ StatusIn(cellStatuses, c.id) = "incorrect" =>
                  Map_get(userAnswers, c.id) = AnswerOf(~c.value)

(***************************************************************************)
(* Progress of the quiz                                                    *)
(***************************************************************************)
QuizTableShown == QuizControlsShown /\ currentResult # NoResult

\* Every quizzable cell of every row is a dropdown and has an answer.
EveryCellAnswered ==
    \A r \in 1..Len(currentResult.rows) : \A f \in 1..Len(currentResult.formulas) :
        \A entry \in {e \in OwnDependencies(currentResult.formulas[f], 0, TRUE) :
                         e.node.tag # "letter"} :
            /\ view.rows[r][f][entry.token + 1].kind = "dropdown"
            /\ cellIdOf(r - 1, f - 1, entry.token) \in DOMAIN userAnswers

\* C28: quiz progress cannot deadlock: from every quiz state with a table
\* displayed, a user who keeps selecting answers in unlocked cells reaches a
\* state in which every quizzable cell of every row is unlocked and answered
\* (unless the table or the quiz is left before).
QuizCanBeCompleted ==
    QuizTableShown ~> (~QuizTableShown \/ EveryCellAnswered)

\* The quiz of a table has been filled in by the user, cell by cell.
QuizCompletedWitness ==
    /\ QuizTableShown
    /\ EveryCellAnswered
    /\ atReveal = NoReveal
    /\ Len(currentResult.rows) > MaxUserRows
    /\ \E f \in 1..Len(currentResult.formulas) :
          \E entry \in OwnDependencies(currentResult.formulas[f], 0, TRUE) :
              entry.deps # {}

=============================================================================
